---- MODULE Spec2Model ----
(***************************************************************************)
(* A model of sempy_labs._generate_semantic_model (create_blank_semantic_  *)
(* model, create_semantic_model_from_bim, deploy_semantic_model,           *)
(* get_semantic_model_bim) and of sempy_labs._model_bpa (model_bpa_rules,  *)
(* run_model_bpa), together with the parts of the Fabric service, the TOM  *)
(* server and the lakehouse that these functions talk to.                  *)
(***************************************************************************)
EXTENDS Integers, Sequences, FiniteSets, TLC

VARIABLES
    \* ---- Fabric service and notebook environment
    items,              \* workspace -> display name -> model.bim of the semantic model (NoItem: none)
    items0,             \* the items when the call started
    files,              \* lakehouse file path -> content written by json.dump (NoItem: no file)
    lakehouseAttached,  \* lakehouse_attached()
    lro,                \* status of the long-running item-creation operation
    pending,            \* the item that operation is creating
    \* ---- the running call of _generate_semantic_model
    pc,                 \* position of the call
    fn,                 \* the function called
    args,               \* its arguments
    cArgs,              \* arguments of create_semantic_model_from_bim (bim_file NoItem: not called yet)
    gArgs,              \* arguments of get_semantic_model_bim
    postStatus,         \* response.status_code of the item-creation POST (0: none sent)
    postedPayload,      \* the model.bim payload part of the request body
    lastPoll,           \* response_body["status"] of the last status GET
    nPosts,             \* item-creation POSTs sent
    nGetDef,            \* getDefinition POSTs sent
    nLakeCheck,         \* lakehouse_attached() calls made by get_semantic_model_bim
    nPolls,             \* status GETs sent (counted up to MaxPolls)
    nResult,            \* result GETs sent
    tmslLog,            \* TMSL scripts handed to fabric.execute_tmsl
    printed,            \* messages printed
    bimRet,             \* value returned by get_semantic_model_bim
    outcome,            \* "none", "returned" or the exception that reached the caller
    \* ---- the semantic model behind the TOM server, and the lakehouse
    tom,                \* the object graph of the semantic model
    annotated,          \* Vertipaq annotations were written to the model
    conns,              \* the open TOM connections, in the order they were opened
    deltaTable,         \* rows of the 'modelbparesults' delta table (NoTable: no such table)
    deltaTable0,        \* the table when the call started
    \* ---- the running call of run_model_bpa
    bpc,                \* position of the call
    bArgs,              \* its arguments
    rules,              \* the rules table in use
    ri,                 \* index of the rule row the scan is at
    si,                 \* index of the scope of that row the scan is at
    violations,         \* the violations frame: rows (Object Name, Scope, Rule Name)
    finalDF,            \* the result frame
    runId,              \* RunId of the export (0: none allocated)
    displayed,          \* the HTML handed to display()
    bOutcome,           \* "none", "returned", "returned_df" or the exception raised
    bRet,               \* the frame run_model_bpa returned (NoFrame: none)
    nDisplay,           \* calls of display()
    lakeOps,            \* what the call did on the lakehouse: listings, queries, writes
    exportColumns,      \* column names of the frame handed to saveAsTable (<<>>: none)
    closedReads,        \* predicate evaluations that read through a closed connection
    \* ---- the export runs against the lakehouse
    exportLog,          \* the reads of MAX(RunId) and the appends, in the order they happened
    other               \* the export block of another run_model_bpa call on the same lakehouse

genVars == <<items, items0, files, lro, pending, pc, fn, args, cArgs, gArgs,
             postStatus, postedPayload, lastPoll, nPosts, nGetDef, nLakeCheck, nPolls,
             nResult, tmslLog, printed, bimRet, outcome>>

bpaVars == <<tom, annotated, conns, deltaTable, deltaTable0, bpc, bArgs, rules, ri, si,
             violations, finalDF, runId, displayed, bOutcome, bRet, nDisplay, lakeOps,
             exportColumns, closedReads, exportLog, other>>

vars == <<genVars, lakehouseAttached, bpaVars>>

----------------------------------------------------------------------------
(* Bounds and input domains *)

MaxPolls == 3
MaxRules == 2
MaxOtherRuns == 2

None == "None"
Workspaces == {"W1", "W2"}
DefaultWorkspace == "W1"
Datasets == {"A", "B"}
CompatLevels == {1499, 1500, 1605}
SaveNames == {"m", "m.bim"}
FilePaths == {"/lakehouse/default/Files/m.bim"}

\* A model.bim as a JSON value: {"name": <string>, "compatibilityLevel": <int>}.
\* Strings are sequences of code points.
NoItem == [name |-> <<>>, compatibilityLevel |-> -1]
JsonError == [name |-> <<>>, compatibilityLevel |-> -2]
BimValues == { [name |-> <<65>>, compatibilityLevel |-> 1500],
               [name |-> <<34, 92, 233, 66>>, compatibilityLevel |-> 1605] }

min_compat == 1500

----------------------------------------------------------------------------
(* json.dumps / json.loads, str.encode / bytes.decode, base64 *)

RECURSIVE Flatten(_)
Flatten(ss) == IF Len(ss) = 0 THEN <<>> ELSE Head(ss) \o Flatten(Tail(ss))

RECURSIVE Digits(_)
\* the decimal digits json.dumps writes for a non-negative int
Digits(n) == IF n < 10 THEN <<48 + n>> ELSE Digits(n \div 10) \o <<48 + (n % 10)>>

HexDigit(v) == IF v < 10 THEN 48 + v ELSE 97 + (v - 10)

HexVal(c) == IF c >= 48 /\ c <= 57 THEN c - 48
             ELSE IF c >= 97 /\ c <= 102 THEN c - 87
             ELSE IF c >= 65 /\ c <= 70 THEN c - 55
             ELSE -1

\* json.dumps (ensure_ascii=True) of one character of a string
EscapeChar(c) ==
    IF c = 34 THEN <<92, 34>>
    ELSE IF c = 92 THEN <<92, 92>>
    ELSE IF c >= 128 \/ c < 32
         THEN <<92, 117, HexDigit(c \div 4096), HexDigit((c \div 256) % 16),
                HexDigit((c \div 16) % 16), HexDigit(c % 16)>>
    ELSE <<c>>

\* {"name": "
NameOpen == <<123, 34, 110, 97, 109, 101, 34, 58, 32, 34>>
\* ", "compatibilityLevel":_
LevelOpen == <<34, 44, 32, 34, 99, 111, 109, 112, 97, 116, 105, 98, 105, 108, 105,
               116, 121, 76, 101, 118, 101, 108, 34, 58, 32>>

JsonDumps(bim) ==
    NameOpen \o Flatten([i \in 1..Len(bim.name) |-> EscapeChar(bim.name[i])])
             \o LevelOpen \o Digits(bim.compatibilityLevel) \o <<125>>

ParseFail == [ok |-> FALSE, val |-> <<>>, next |-> 0]

RECURSIVE ParseString(_, _, _)
\* the characters of a JSON string whose opening quote is before position i
ParseString(t, i, acc) ==
    IF i > Len(t) THEN ParseFail
    ELSE IF t[i] = 34 THEN [ok |-> TRUE, val |-> acc, next |-> i + 1]
    ELSE IF t[i] = 92
         THEN IF i + 1 > Len(t) THEN ParseFail
              ELSE IF t[i + 1] \in {34, 92} THEN ParseString(t, i + 2, Append(acc, t[i + 1]))
              ELSE IF t[i + 1] = 117 /\ i + 5 <= Len(t)
                      /\ \A k \in 2..5 : HexVal(t[i + k]) >= 0
                   THEN ParseString(t, i + 6,
                            Append(acc, HexVal(t[i + 2]) * 4096 + HexVal(t[i + 3]) * 256
                                        + HexVal(t[i + 4]) * 16 + HexVal(t[i + 5])))
              ELSE ParseFail
    ELSE IF t[i] < 32 THEN ParseFail
    ELSE ParseString(t, i + 1, Append(acc, t[i]))

RECURSIVE ParseInt(_, _, _)
ParseInt(t, i, acc) ==
    IF i <= Len(t) /\ t[i] >= 48 /\ t[i] <= 57
    THEN ParseInt(t, i + 1, acc * 10 + (t[i] - 48))
    ELSE [ok |-> TRUE, val |-> acc, next |-> i]

JsonLoads(t) ==
    IF Len(t) < Len(NameOpen) \/ SubSeq(t, 1, Len(NameOpen)) # NameOpen THEN JsonError
    ELSE LET s == ParseString(t, Len(NameOpen) + 1, <<>>)
         IN  IF ~s.ok THEN JsonError
             \* s.next is just after the closing quote, which LevelOpen starts with
             ELSE LET j == s.next - 1
                      k == j + Len(LevelOpen)
                  IN  IF k > Len(t) \/ SubSeq(t, j, k - 1) # LevelOpen THEN JsonError
                      ELSE LET n == ParseInt(t, k, 0)
                           IN  IF n.next = k \/ n.next # Len(t) \/ t[n.next] # 125
                               THEN JsonError
                               ELSE [name |-> s.val, compatibilityLevel |-> n.val]

\* str.encode("utf-8") for code points below 2048
Utf8Encode(s) ==
    IF \A i \in 1..Len(s) : s[i] < 128 THEN s
    ELSE Flatten([i \in 1..Len(s) |->
                     IF s[i] < 128 THEN <<s[i]>>
                     ELSE <<192 + (s[i] \div 64), 128 + (s[i] % 64)>>])

\* one- and two-byte sequences only
Utf8Valid(b) ==
    \A i \in 1..Len(b) :
        \/ b[i] >= 0 /\ b[i] < 128
        \/ b[i] >= 192 /\ b[i] < 224 /\ i < Len(b) /\ b[i + 1] >= 128 /\ b[i + 1] < 192
        \/ b[i] >= 128 /\ b[i] < 192 /\ i > 1 /\ b[i - 1] >= 192 /\ b[i - 1] < 224

RECURSIVE Utf8Chars(_)
Utf8Chars(b) ==
    IF Len(b) = 0 THEN <<>>
    ELSE IF b[1] < 128 THEN <<b[1]>> \o Utf8Chars(Tail(b))
    ELSE <<(b[1] - 192) * 64 + (b[2] - 128)>> \o Utf8Chars(SubSeq(b, 3, Len(b)))

\* bytes.decode("utf-8"); <<-1>> stands for UnicodeDecodeError
Utf8Decode(b) ==
    IF \A i \in 1..Len(b) : b[i] >= 0 /\ b[i] < 128 THEN b
    ELSE IF Utf8Valid(b) THEN Utf8Chars(b)
    ELSE <<-1>>

B64Char(v) == IF v < 26 THEN 65 + v
              ELSE IF v < 52 THEN 97 + (v - 26)
              ELSE IF v < 62 THEN 48 + (v - 52)
              ELSE IF v = 62 THEN 43 ELSE 47

B64Val(c) == IF c >= 65 /\ c <= 90 THEN c - 65
             ELSE IF c >= 97 /\ c <= 122 THEN c - 97 + 26
             ELSE IF c >= 48 /\ c <= 57 THEN c - 48 + 52
             ELSE IF c = 43 THEN 62
             ELSE IF c = 47 THEN 63
             ELSE -1

RECURSIVE B64Encode(_)
\* base64.b64encode: three bytes to four characters, '=' padding
B64Encode(b) ==
    IF Len(b) = 0 THEN <<>>
    ELSE IF Len(b) = 1
         THEN <<B64Char(b[1] \div 4), B64Char((b[1] % 4) * 16), 61, 61>>
    ELSE IF Len(b) = 2
         THEN <<B64Char(b[1] \div 4), B64Char((b[1] % 4) * 16 + (b[2] \div 16)),
                B64Char((b[2] % 16) * 4), 61>>
    ELSE <<B64Char(b[1] \div 4), B64Char((b[1] % 4) * 16 + (b[2] \div 16)),
           B64Char((b[2] % 16) * 4 + (b[3] \div 64)), B64Char(b[3] % 64)>>
         \o B64Encode(SubSeq(b, 4, Len(b)))

\* whole groups of four characters of the alphabet, '=' only as padding at the end
B64Valid(s) ==
    /\ Len(s) % 4 = 0
    /\ \A i \in 1..Len(s) :
          \/ B64Val(s[i]) >= 0
          \/ s[i] = 61 /\ i = Len(s)
          \/ s[i] = 61 /\ i = Len(s) - 1 /\ s[Len(s)] = 61

RECURSIVE B64Bytes(_)
B64Bytes(s) ==
    IF Len(s) = 0 THEN <<>>
    ELSE IF s[3] = 61
         THEN <<B64Val(s[1]) * 4 + (B64Val(s[2]) \div 16)>>
    ELSE IF s[4] = 61
         THEN <<B64Val(s[1]) * 4 + (B64Val(s[2]) \div 16),
                (B64Val(s[2]) % 16) * 16 + (B64Val(s[3]) \div 4)>>
    ELSE <<B64Val(s[1]) * 4 + (B64Val(s[2]) \div 16),
           (B64Val(s[2]) % 16) * 16 + (B64Val(s[3]) \div 4),
           (B64Val(s[3]) % 4) * 64 + B64Val(s[4])>> \o B64Bytes(SubSeq(s, 5, Len(s)))

\* base64.b64decode; <<-1>> stands for binascii.Error
B64Decode(s) == IF B64Valid(s) THEN B64Bytes(s) ELSE <<-1>>

\* encoding with .encode("ascii", "replace") semantics: '?' for what is not ASCII
conv_b64_AsciiReplace(file) ==
    Utf8Decode(B64Encode(Utf8Encode(JsonDumps(
        [file EXCEPT !.name = [i \in 1..Len(file.name) |->
                                  IF file.name[i] >= 128 THEN 63 ELSE file.name[i]]]))))

\* conv_b64 of create_semantic_model_from_bim
conv_b64(file) == Utf8Decode(B64Encode(Utf8Encode(JsonDumps(file))))

\* base64.b64decode(payload).decode("utf-8") followed by json.loads
DecodePayload(payload) ==
    LET raw == B64Decode(payload)
    IN  IF raw = <<-1>> THEN JsonError
        ELSE LET txt == Utf8Decode(raw)
             IN  IF txt = <<-1>> THEN JsonError ELSE JsonLoads(txt)


----------------------------------------------------------------------------
(* The Fabric service *)

\* workspace = fabric.resolve_workspace_name(workspace): None is the default workspace
ResolveWorkspace(w) == IF w = None THEN DefaultWorkspace ELSE w

\* a listing that finds the name in any workspace
ListItemsFilt_AnyWorkspace(its, w, d) ==
    IF \A x \in Workspaces : its[x][d] = NoItem THEN {} ELSE {d}

\* fabric.list_items(workspace, type="SemanticModel") filtered on "Display Name" == dataset
ListItemsFilt(its, w, d) == IF its[w][d] = NoItem THEN {} ELSE {d}

\* the TMSL script create_blank_semantic_model formats
BlankTmsl(dataset, level) ==
    [command |-> "createOrReplace", object |-> dataset, name |-> dataset,
     compatibilityLevel |-> level]

DatasetChars(d) == IF d = "A" THEN <<65>> ELSE <<66>>

\* fabric.execute_tmsl: createOrReplace of the database the script names
ExecuteTmsl(its, script, w) ==
    [its EXCEPT ![w][script.object] =
        [name |-> DatasetChars(script.name),
         compatibilityLevel |-> script.compatibilityLevel]]

\* the request body of the item-creation POST
RequestBody(dataset, bim_file) ==
    [displayName |-> dataset, type |-> "SemanticModel", payloadBim |-> conv_b64(bim_file)]

\* the item of an accepted request
NewItem(w, body) ==
    [workspace |-> w, displayName |-> body.displayName,
     bim |-> DecodePayload(body.payloadBim)]

\* the service creating that item
CreateItem(its, item) == [its EXCEPT ![item.workspace][item.displayName] = item.bim]

\* the model.bim part of the getDefinition response
DefinitionPayload(bim) == Utf8Decode(B64Encode(Utf8Encode(JsonDumps(bim))))

\* the status codes the item-creation POST can be answered with
PostStatuses(body) ==
    IF DecodePayload(body.payloadBim) = JsonError THEN {400} ELSE {201, 202, 400}

NoArgs == [dataset |-> None, new_dataset |-> None, workspace |-> None,
           new_dataset_workspace |-> None, compatibility_level |-> 0,
           bim_file |-> NoItem, save_to_file_name |-> None]
NoCArgs == [dataset |-> None, bim_file |-> NoItem, workspace |-> None]
NoGArgs == [dataset |-> None, workspace |-> None, save_to_file_name |-> None]
NoBody == [displayName |-> None, type |-> None, payloadBim |-> <<>>]
NoPending == [workspace |-> None, displayName |-> None, bim |-> NoItem]

\* no call of _generate_semantic_model is running
GenIdle ==
    /\ items0 = items
    /\ files = [p \in FilePaths |-> NoItem]
    /\ lro = "None"
    /\ pending = NoPending
    /\ pc = "idle"
    /\ fn = None
    /\ args = NoArgs
    /\ cArgs = NoCArgs
    /\ gArgs = NoGArgs
    /\ postStatus = 0
    /\ postedPayload = NoBody
    /\ lastPoll = "None"
    /\ nPosts = 0
    /\ nGetDef = 0
    /\ nLakeCheck = 0
    /\ nPolls = 0
    /\ nResult = 0
    /\ tmslLog = <<>>
    /\ printed = {}
    /\ bimRet = NoItem
    /\ outcome = "none"

envVars == <<items, items0, files, lakehouseAttached, lro, pending, bpaVars>>
reqVars == <<postStatus, postedPayload, lastPoll, nPosts, nGetDef, nLakeCheck, nPolls,
            nResult>>

----------------------------------------------------------------------------
(* create_blank_semantic_model *)

BelowMinCompat_Inclusive(level) == level <= min_compat

\* compatibility_level < min_compat
BelowMinCompat(level) == level < min_compat

CreateBlank(dataset, level, workspace) ==
    /\ pc = "idle"
    /\ fn' = "create_blank_semantic_model"
    /\ args' = [NoArgs EXCEPT !.dataset = dataset, !.compatibility_level = level,
                              !.workspace = workspace]
    /\ pc' = "done"
    /\ LET w == ResolveWorkspace(workspace)
       IN  IF BelowMinCompat(level)
           THEN /\ outcome' = "ValueError"
                /\ UNCHANGED <<items, tmslLog, printed>>
           ELSE /\ tmslLog' = Append(tmslLog, [script |-> BlankTmsl(dataset, level),
                                               workspace |-> w])
                /\ \E ok \in BOOLEAN :
                      IF ok
                      THEN /\ items' = ExecuteTmsl(items, BlankTmsl(dataset, level), w)
                           /\ printed' = printed \cup {"was created"}
                           /\ outcome' = "returned"
                      ELSE /\ outcome' = "TmslError"
                           /\ UNCHANGED <<items, printed>>
    /\ UNCHANGED <<items0, files, lakehouseAttached, lro, pending, cArgs, gArgs, reqVars,
                   bimRet, bpaVars>>

----------------------------------------------------------------------------
(* create_semantic_model_from_bim *)

CallCreateFromBim(dataset, bim_file, workspace) ==
    /\ pc = "idle"
    /\ fn' = "create_semantic_model_from_bim"
    /\ args' = [NoArgs EXCEPT !.dataset = dataset, !.bim_file = bim_file,
                              !.workspace = workspace]
    /\ cArgs' = [dataset |-> dataset, bim_file |-> bim_file, workspace |-> workspace]
    /\ pc' = "c_check"
    /\ UNCHANGED <<envVars, gArgs, reqVars, tmslLog, printed, bimRet, outcome>>

AlreadyExists_MoreThanOne(its, w, d) == Cardinality(ListItemsFilt(its, w, d)) > 1

\* len(dfI_filt) > 0
AlreadyExists(its, w, d) == Cardinality(ListItemsFilt(its, w, d)) > 0

\* lines 89-99: the duplicate-name check
CreateCheck ==
    /\ pc = "c_check"
    /\ IF AlreadyExists(items, ResolveWorkspace(cArgs.workspace), cArgs.dataset)
       THEN /\ outcome' = "ValueError"
            /\ pc' = "done"
       ELSE /\ pc' = "c_post"
            /\ UNCHANGED outcome
    /\ UNCHANGED <<envVars, fn, args, cArgs, gArgs, reqVars, tmslLog, printed, bimRet>>

\* lines 101-140: build the request body, POST it, branch on the status code
CreatePost ==
    /\ pc = "c_post"
    /\ LET w == ResolveWorkspace(cArgs.workspace)
           body == RequestBody(cArgs.dataset, cArgs.bim_file)
       IN  /\ nPosts' = nPosts + 1
           /\ postedPayload' = body
           /\ \/ \E st \in PostStatuses(body) :
                    /\ postStatus' = st
                    /\ IF st = 201
                       THEN /\ items' = CreateItem(items, NewItem(w, body))
                            /\ printed' = printed \cup {"has been created"}
                            /\ pc' = "done"
                            /\ outcome' = "returned"
                            /\ UNCHANGED <<lro, pending>>
                       ELSE IF st = 202
                       THEN /\ lro' = "NotStarted"
                            /\ pending' = NewItem(w, body)
                            /\ pc' = "c_poll"
                            /\ UNCHANGED <<items, printed, outcome>>
                       ELSE /\ pc' = "done"
                            /\ outcome' = "returned"
                            /\ UNCHANGED <<items, printed, lro, pending>>
              \/ \* the request itself fails (no response)
                 /\ postStatus' = -1
                 /\ pc' = "done"
                 /\ outcome' = "HTTPError"
                 /\ UNCHANGED <<items, printed, lro, pending>>
    /\ UNCHANGED <<items0, files, lakehouseAttached, fn, args, cArgs, gArgs, lastPoll,
                   nGetDef, nLakeCheck, nPolls, nResult, tmslLog, bimRet, bpaVars>>

\* the status GET counts up to MaxPolls
CountPoll(n) == IF n < MaxPolls THEN n + 1 ELSE n

\* lines 141-143: the first status GET
CreateFirstPoll ==
    /\ pc = "c_poll"
    /\ lastPoll' = lro
    /\ nPolls' = CountPoll(nPolls)
    /\ pc' = "c_loop"
    /\ UNCHANGED <<envVars, fn, args, cArgs, gArgs, postStatus, postedPayload, nPosts,
                   nGetDef, nLakeCheck, nResult, tmslLog, printed, bimRet, outcome>>

KeepPolling_UntilTerminal(status) == status \notin {"Succeeded", "Failed"}

\* while response_body["status"] != "Succeeded"
KeepPolling(status) == status # "Succeeded"

\* line 144: the loop test; a status other than "Succeeded" enters the body
CreateLoop ==
    /\ pc = "c_loop"
    /\ pc' = IF KeepPolling(lastPoll) THEN "c_sleep" ELSE "c_result"
    /\ UNCHANGED <<envVars, fn, args, cArgs, gArgs, postStatus, postedPayload, lastPoll,
                   nPosts, nGetDef, nLakeCheck, nPolls, nResult, tmslLog, printed, bimRet, outcome>>

\* lines 145-147: the loop body, time.sleep(3) and the next status GET
CreateSleepPoll ==
    /\ pc = "c_sleep"
    /\ lastPoll' = lro
    /\ nPolls' = CountPoll(nPolls)
    /\ pc' = "c_loop"
    /\ UNCHANGED <<envVars, fn, args, cArgs, gArgs, postStatus, postedPayload, nPosts,
                   nGetDef, nLakeCheck, nResult, tmslLog, printed, bimRet, outcome>>

\* lines 148-152: fetch the operation result, print the success message
CreateResult ==
    /\ pc = "c_result"
    /\ nResult' = nResult + 1
    /\ printed' = printed \cup {"has been created"}
    /\ pc' = "done"
    /\ outcome' = "returned"
    /\ UNCHANGED <<envVars, fn, args, cArgs, gArgs, postStatus, postedPayload, lastPoll,
                   nPosts, nGetDef, nLakeCheck, nPolls, tmslLog, bimRet>>

\* the service working on the long-running operation
LroStart ==
    /\ lro = "NotStarted"
    /\ lro' = "Running"
    /\ UNCHANGED <<items, items0, files, lakehouseAttached, pending, pc, fn, args, cArgs,
                   gArgs, reqVars, tmslLog, printed, bimRet, outcome, bpaVars>>

LroFinish ==
    /\ lro = "Running"
    /\ \/ /\ lro' = "Succeeded"
          /\ items' = CreateItem(items, pending)
       \/ /\ lro' = "Failed"
          /\ UNCHANGED items
    /\ UNCHANGED <<items0, files, lakehouseAttached, pending, pc, fn, args, cArgs, gArgs,
                   reqVars, tmslLog, printed, bimRet, outcome, bpaVars>>


----------------------------------------------------------------------------
(* get_semantic_model_bim *)

CallGetBim(dataset, workspace, save_to_file_name) ==
    /\ pc = "idle"
    /\ fn' = "get_semantic_model_bim"
    /\ args' = [NoArgs EXCEPT !.dataset = dataset, !.workspace = workspace,
                              !.save_to_file_name = save_to_file_name]
    /\ gArgs' = [dataset |-> dataset, workspace |-> workspace,
                 save_to_file_name |-> save_to_file_name]
    /\ pc' = "g_run"
    /\ UNCHANGED <<envVars, cArgs, reqVars, tmslLog, printed, bimRet, outcome>>

\* lines 265-269: the path of the saved file
FilePath(save_to_file_name) ==
    "/lakehouse/default/Files/" \o
        (IF save_to_file_name = "m.bim" THEN save_to_file_name
         ELSE save_to_file_name \o ".bim")

\* return bimJson: to the caller, or into deploy_semantic_model (lines 199-203)
GetBimReturn(bimJson) ==
    IF fn = "deploy_semantic_model"
    THEN /\ cArgs' = [cArgs EXCEPT !.bim_file = bimJson]
         /\ pc' = "c_check"
         /\ UNCHANGED <<bimRet, outcome>>
    ELSE /\ bimRet' = bimJson
         /\ outcome' = "returned"
         /\ pc' = "done"
         /\ UNCHANGED cArgs

\* a test that never finds the lakehouse missing
NoLakehouseForFile_Never(attached) == FALSE

\* line 258: lakeAttach is False
NoLakehouseForFile(attached) == attached = FALSE

\* lines 236-276
GetBim ==
    /\ pc = "g_run"
    /\ LET w == ResolveWorkspace(gArgs.workspace)
           d == gArgs.dataset
       IN  IF ListItemsFilt(items, w, d) = {}
           THEN \* itemListFilt["Id"].iloc[0] on an empty frame
                /\ outcome' = "IndexError"
                /\ pc' = "done"
                /\ UNCHANGED <<files, nGetDef, nLakeCheck, printed, cArgs, bimRet>>
           ELSE /\ nGetDef' = nGetDef + 1
                /\ \/ \* the getDefinition request fails
                      /\ outcome' = "HTTPError"
                      /\ pc' = "done"
                      /\ UNCHANGED <<files, nLakeCheck, printed, cArgs, bimRet>>
                   \/ LET bimJson == DecodePayload(DefinitionPayload(items[w][d]))
                      IN  IF gArgs.save_to_file_name # None
                          THEN /\ nLakeCheck' = nLakeCheck + 1
                               /\ IF NoLakehouseForFile(lakehouseAttached)
                                  THEN /\ outcome' = "ValueError"
                                       /\ pc' = "done"
                                       /\ UNCHANGED <<files, printed, cArgs, bimRet>>
                                  ELSE /\ files' = [files EXCEPT
                                              ![FilePath(gArgs.save_to_file_name)] = bimJson]
                                       /\ printed' = printed \cup {"has been saved"}
                                       /\ GetBimReturn(bimJson)
                          ELSE /\ GetBimReturn(bimJson)
                               /\ UNCHANGED <<files, nLakeCheck, printed>>
    /\ UNCHANGED <<items, items0, lakehouseAttached, lro, pending, fn, args, gArgs, postStatus,
                   postedPayload, lastPoll, nPosts, nPolls, nResult, tmslLog, bpaVars>>

----------------------------------------------------------------------------
(* deploy_semantic_model *)

DeployTarget_NotebookWorkspace(dataset, new_dataset, workspace, new_dataset_workspace) ==
    [workspace |-> ResolveWorkspace(workspace),
     new_dataset_workspace |->
         IF new_dataset_workspace = None THEN DefaultWorkspace ELSE new_dataset_workspace,
     new_dataset |-> IF new_dataset = None THEN dataset ELSE new_dataset]

\* lines 184-190: the target after defaulting
DeployTarget(dataset, new_dataset, workspace, new_dataset_workspace) ==
    LET w == ResolveWorkspace(workspace)
    IN  [workspace |-> w,
         new_dataset_workspace |->
             IF new_dataset_workspace = None THEN w ELSE new_dataset_workspace,
         new_dataset |-> IF new_dataset = None THEN dataset ELSE new_dataset]

\* line 192
SameAsSource(dataset, t) ==
    t.new_dataset = dataset /\ t.new_dataset_workspace = t.workspace

\* lines 184-199
Deploy(dataset, new_dataset, workspace, new_dataset_workspace) ==
    /\ pc = "idle"
    /\ fn' = "deploy_semantic_model"
    /\ LET t == DeployTarget(dataset, new_dataset, workspace, new_dataset_workspace)
       IN  /\ args' = [NoArgs EXCEPT !.dataset = dataset,
                                     !.new_dataset = new_dataset,
                                     !.workspace = workspace,
                                     !.new_dataset_workspace = new_dataset_workspace]
           /\ IF SameAsSource(dataset, t)
              THEN /\ printed' = printed \cup {"must be different"}
                   /\ outcome' = "returned"
                   /\ pc' = "done"
                   /\ UNCHANGED <<gArgs, cArgs>>
              ELSE /\ gArgs' = [dataset |-> dataset, workspace |-> t.workspace,
                                save_to_file_name |-> None]
                   \* the arguments line 201 will pass on; bim_file comes from line 199
                   /\ cArgs' = [dataset |-> t.new_dataset, bim_file |-> NoItem,
                                workspace |-> t.new_dataset_workspace]
                   /\ pc' = "g_run"
                   /\ UNCHANGED <<printed, outcome>>
    /\ UNCHANGED <<envVars, reqVars, tmslLog, bimRet>>

----------------------------------------------------------------------------
(* The semantic model behind TOM, and rule tables *)

ScopeNames == {"Relationship", "Column", "Measure", "Hierarchy", "Table", "Role", "Model",
               "Calculation Item", "Row Level Security", "Partition"}

ColumnC1 == [Name |-> "c1", Parent |-> "T", DataType |-> "Double", IsAvailableInMDX |-> TRUE,
             IsHidden |-> TRUE, SortByColumn |-> None]
ColumnC2 == [Name |-> "c2", Parent |-> "T", DataType |-> "String", IsAvailableInMDX |-> TRUE,
             IsHidden |-> FALSE, SortByColumn |-> None]
\* a text column named for the month, not sorted by any column, and columns
\* that are sorted, or used for sorting
ColumnMonth == [Name |-> "Month", Parent |-> "T", DataType |-> "String",
                IsAvailableInMDX |-> FALSE, IsHidden |-> FALSE, SortByColumn |-> None]
ColumnMonths == [Name |-> "Months", Parent |-> "T", DataType |-> "String",
                 IsAvailableInMDX |-> TRUE, IsHidden |-> FALSE, SortByColumn |-> None]
ColumnMonthName == [Name |-> "MonthName", Parent |-> "T", DataType |-> "String",
                    IsAvailableInMDX |-> FALSE, IsHidden |-> FALSE, SortByColumn |-> "MonthNo"]
ColumnMonthNo == [Name |-> "MonthNo", Parent |-> "T", DataType |-> "Int64",
                  IsAvailableInMDX |-> FALSE, IsHidden |-> FALSE, SortByColumn |-> None]
TableT == [Name |-> "T", IsHidden |-> FALSE, Partitions |-> <<[Mode |-> "Import"]>>]
MeasureM1 == [Name |-> "m1", Parent |-> "T"]
RelBiDi == [Name |-> "r1", FromTable |-> "T", FromColumn |-> "c1", ToTable |-> "T",
            ToColumn |-> "c2", FromCardinality |-> "Many", ToCardinality |-> "One",
            CrossFilteringBehavior |-> "BothDirections"]
RelManyMany == [Name |-> "r1", FromTable |-> "T", FromColumn |-> "c1", ToTable |-> "T",
                ToColumn |-> "c2", FromCardinality |-> "Many", ToCardinality |-> "Many",
                CrossFilteringBehavior |-> "OneDirection"]

\* a one-directional many-to-one relationship
RelPlain(name) == [RelBiDi EXCEPT !.Name = name, !.CrossFilteringBehavior = "OneDirection"]
\* a bi-directional many-to-many relationship
RelBoth == [RelManyMany EXCEPT !.CrossFilteringBehavior = "BothDirections"]

\* models with four relationships, one of them bi-directional
ManyRelModels ==
    { [Name |-> "M", Tables |-> <<TableT>>, Columns |-> <<ColumnC1, ColumnC2>>,
       Measures |-> <<>>, Relationships |-> <<r, RelPlain("r2"), RelPlain("r3"), RelPlain("r4")>>] :
        r \in {RelBiDi, RelBoth} }

\* models with month columns
MonthModels ==
    { [Name |-> "M", Tables |-> <<TableT>>, Columns |-> c, Measures |-> <<>>,
       Relationships |-> <<>>] :
        c \in {<<ColumnMonth>>, <<ColumnMonths, ColumnMonthName, ColumnMonthNo>>} }

TomModels ==
    { [Name |-> "M", Tables |-> <<TableT>>, Columns |-> c, Measures |-> m,
       Relationships |-> r] :
        c \in {<<>>, <<ColumnC1>>, <<ColumnC1, ColumnC2>>},
        m \in {<<>>, <<MeasureM1>>},
        r \in {<<>>, <<RelBiDi>>, <<RelManyMany>>} }
    \cup ManyRelModels \cup MonthModels

\* TOMWrapper.is_direct_lake, has_hybrid_table, used_in_relationships,
\* used_in_sort_by, used_in_hierarchies on the model behind a connection
is_direct_lake(tm) ==
    \E i \in 1..Len(tm.Tables) : \E p \in 1..Len(tm.Tables[i].Partitions) :
        tm.Tables[i].Partitions[p].Mode = "DirectLake"

has_hybrid_table(tm) ==
    \E i \in 1..Len(tm.Tables) :
        LET modes == {tm.Tables[i].Partitions[p].Mode : p \in 1..Len(tm.Tables[i].Partitions)}
        IN  "Import" \in modes /\ "DirectQuery" \in modes

used_in_relationships(tm, table) ==
    SelectSeq(tm.Relationships, LAMBDA r : r.FromTable = table.Name \/ r.ToTable = table.Name)

used_in_sort_by(tm, column) ==
    SelectSeq(tm.Columns, LAMBDA c : c.Parent = column.Parent /\ c.SortByColumn = column.Name)

\* the models of TomModels have no hierarchies
used_in_hierarchies(tm, column) == <<>>

ParentTable(tm, obj) == CHOOSE t \in {tm.Tables[i] : i \in 1..Len(tm.Tables)} : t.Name = obj.Parent

\* what run_model_bpa iterates for a scope (lines 953-974)
Collection(tm, scope) ==
    CASE scope = "Relationship" -> tm.Relationships
      [] scope = "Column" -> tm.Columns
      [] scope = "Measure" -> tm.Measures
      [] scope = "Table" -> tm.Tables
      [] OTHER -> <<>>

\* format_dax_object_name
format_dax_object_name(t, c) == "'" \o t \o "'[" \o c \o "]"

\* the name functions of scope_to_dataframe (lines 905-939)
nm(scope, obj) ==
    CASE scope = "Relationship" ->
             format_dax_object_name(obj.FromTable, obj.FromColumn) \o " -> "
                 \o format_dax_object_name(obj.ToTable, obj.ToColumn)
      [] scope \in {"Column", "Hierarchy", "Row Level Security", "Partition",
                    "Calculation Item"} -> format_dax_object_name(obj.Parent, obj.Name)
      [] OTHER -> obj.Name

StrScope(x) == [kind |-> "str", str |-> x, list |-> <<>>]
ListScope(l) == [kind |-> "list", str |-> "", list |-> l]

\* rules a caller passes in: (Category, Scope, Severity, Rule Name, Expression,
\* Description, URL), the Expression being one of the predicates of Truthy
UserRulePool ==
    { [Category |-> "Performance", Scope |-> StrScope("Column"), Severity |-> "Warning",
       RuleName |-> "Avoid doubles", Expression |-> "isDouble",
       Description |-> "Use Int64 or Decimal", URL |-> "https://example.org/doubles"],
      [Category |-> "Formatting", Scope |-> ListScope(<<"Column", "Measure">>),
       Severity |-> "Info", RuleName |-> "Known names", Expression |-> "nameIn",
       Description |-> "Names on the list", URL |-> None],
      [Category |-> "Performance", Scope |-> StrScope("Model"), Severity |-> "Error",
       RuleName |-> "Model always", Expression |-> "always",
       Description |-> None, URL |-> None],
      [Category |-> "Maintenance", Scope |-> StrScope("Model"), Severity |-> "Info",
       RuleName |-> "Model never", Expression |-> "never",
       Description |-> None, URL |-> None],
      [Category |-> "Maintenance", Scope |-> ListScope(<<"Table", "Relationship">>),
       Severity |-> "Warning", RuleName |-> "Everything", Expression |-> "always",
       Description |-> "Flags every object", URL |-> None] }

RuleTables ==
    UNION { { t \in [1..n -> UserRulePool] : \A i, j \in 1..n : t[i] = t[j] => i = j } :
            n \in 0..MaxRules }

\* the characters of an object name
NameChars(name) ==
    CASE name = "Month" -> <<"M", "o", "n", "t", "h">>
      [] name = "Months" -> <<"M", "o", "n", "t", "h", "s">>
      [] name = "MonthName" -> <<"M", "o", "n", "t", "h", "N", "a", "m", "e">>
      [] name = "MonthNo" -> <<"M", "o", "n", "t", "h", "N", "o">>
      [] name = "c1" -> <<"c", "1">>
      [] name = "c2" -> <<"c", "2">>
      [] name = "m1" -> <<"m", "1">>
      [] name = "T" -> <<"T">>
      [] name = None -> <<"N", "o", "n", "e">>

LowerChar(c) ==
    CASE c = "M" -> "m" [] c = "N" -> "n" [] c = "T" -> "t" [] OTHER -> c

\* re.search(pattern, text, flags=re.IGNORECASE) for a pattern of plain letters
re_search_ignorecase(pattern, text) ==
    \E i \in 1..Len(text) :
        /\ i + Len(pattern) - 1 <= Len(text)
        /\ \A k \in 1..Len(pattern) : LowerChar(text[i + k - 1]) = LowerChar(pattern[k])

\* str(obj.SortByColumn): "None" for None, else the text of the column object
StrOfSortByColumn(sortBy) == NameChars(sortBy)

\* bool() of the generator object a generator method returns
GeneratorTruthy(yielded) == TRUE

\* the value of a rule's Expression on an object
Truthy(expr, obj) ==
    CASE expr = "always" -> TRUE
      [] expr = "never" -> FALSE
      [] expr = "nameIn" -> obj.Name \in {"c1", "m1"}
      [] expr = "isDouble" -> obj.DataType = "Double"
      \* line 53
      [] expr = "d_float" -> obj.DataType = "Double"
      \* lines 70-75: the two adjacent string literals are one literal
      [] expr = "d_bidi_valid" ->
             \/ obj.FromCardinality = "Many" /\ obj.ToCardinality = "Many"
             \/ obj.CrossFilteringBehavior =
                    "BothDirections" \o "Bi-directional and many-to-many relationships may cause performance degradation"
      \* lines 107-111
      [] expr = "d_m2m_single" ->
             /\ obj.FromCardinality = "Many" /\ obj.ToCardinality = "Many"
             /\ obj.CrossFilteringBehavior = "BothDirections"
      \* lines 120-125: tom is the connection of model_bpa_rules
      [] expr = "d_mdx" ->
             /\ is_direct_lake(tom) = FALSE
             /\ obj.IsAvailableInMDX
             /\ (obj.IsHidden \/ ParentTable(tom, obj).IsHidden)
             /\ obj.SortByColumn = None
             /\ Len(used_in_sort_by(tom, obj)) = 0
             /\ Len(used_in_hierarchies(tom, obj)) = 0
      \* lines 145-154: tom is the connection of model_bpa_rules
      [] expr = "d_dual" ->
             /\ Cardinality({p \in 1..Len(obj.Partitions) : obj.Partitions[p].Mode = "Import"}) = 1
             /\ Len(obj.Partitions) = 1
             /\ has_hybrid_table(tom)
             /\ \E k \in 1..Len(used_in_relationships(tom, obj)) :
                    LET r == used_in_relationships(tom, obj)[k]
                    IN  r.ToCardinality = "One" /\ r.ToTable = obj.Name
      \* lines 394-399: tom is the connection of model_bpa_rules; the operands
      \* of or are the generator objects themselves
      [] expr = "d_mdx_true" ->
             /\ is_direct_lake(tom) = FALSE
             /\ obj.IsAvailableInMDX = FALSE
             /\ \/ GeneratorTruthy(used_in_sort_by(tom, obj))
                \/ GeneratorTruthy(used_in_hierarchies(tom, obj))
                \/ obj.SortByColumn # None
      \* lines 753-756
      [] expr = "d_month" ->
             /\ re_search_ignorecase(<<"m", "o", "n", "t", "h">>, NameChars(obj.Name))
             /\ ~re_search_ignorecase(<<"m", "o", "n", "t", "h", "s">>, NameChars(obj.Name))
             /\ obj.DataType = "String"
             /\ Len(StrOfSortByColumn(obj.SortByColumn)) = 0
      \* lines 256-272
      [] expr = "d_excessive" ->
             LET R == obj.Relationships
                 bidi == Cardinality({i \in 1..Len(R) :
                             R[i].CrossFilteringBehavior = "BothDirections"})
                 m2m == Cardinality({i \in 1..Len(R) :
                             R[i].FromCardinality = "Many" /\ R[i].ToCardinality = "Many"})
                 cnt == IF Len(R) > 1 THEN Len(R) ELSE 1
             IN  10 * (bidi + m2m) > 3 * cnt

\* pd.DataFrame(tuples, columns=[...]): a short tuple leaves its last columns empty
DataFrameRow(t) ==
    [Category |-> t[1], Scope |-> t[2], Severity |-> t[3], RuleName |-> t[4],
     Expression |-> t[5],
     Description |-> IF Len(t) >= 6 THEN t[6] ELSE None,
     URL |-> IF Len(t) >= 7 THEN t[7] ELSE None]

\* rows of the table model_bpa_rules builds (lines 46-826)
DefaultRules ==
    << DataFrameRow(<<"Performance", StrScope("Column"), "Warning",
                      "Do not use floating point data types", "d_float",
                      "The Double floating point data type should be avoided">>),
       DataFrameRow(<<"Performance", StrScope("Relationship"), "Warning",
                      "Check if bi-directional and many-to-many relationships are valid",
                      "d_bidi_valid",
                      "https://www.sqlbi.com/articles/bidirectional-relationships-and-ambiguity-in-dax">>),
       DataFrameRow(<<"Performance", StrScope("Relationship"), "Warning",
                      "Many-to-many relationships should be single-direction",
                      "d_m2m_single">>),
       DataFrameRow(<<"Performance", StrScope("Column"), "Warning",
                      "Set IsAvailableInMdx to false on non-attribute columns", "d_mdx",
                      "Attribute hierarchies should not be built for hidden columns",
                      "https://blog.crossjoin.co.uk/2018/07/02/isavailableinmdx-ssas-tabular">>),
       DataFrameRow(<<"Performance", StrScope("Table"), "Warning",
                      "Set dimensions tables to dual mode instead of import when using DirectQuery on fact tables",
                      "d_dual",
                      "https://learn.microsoft.com/power-bi/transform-model/desktop-storage-mode#propagation-of-the-dual-setting">>),
       DataFrameRow(<<"Performance", StrScope("Model"), "Warning",
                      "Avoid excessive bi-directional or many-to-many relationships",
                      "d_excessive",
                      "Limit use of b-di and many-to-many relationships",
                      "https://www.sqlbi.com/articles/bidirectional-relationships-and-ambiguity-in-dax">>),
       DataFrameRow(<<"Error Prevention", StrScope("Column"), "Warning",
                      "Set IsAvailableInMdx to true on necessary columns", "d_mdx_true",
                      "Ensure that attribute hierarchies are enabled if a column is used for sorting">>),
       DataFrameRow(<<"Formatting", StrScope("Column"), "Info",
                      "Month (as a string) must be sorted", "d_month",
                      "This rule highlights month columns which are strings and are not sorted">>) >>

\* lines 897-899
SeverityIcon(sev) ==
    CASE sev = "Warning" -> "warning sign"
      [] sev = "Error" -> "cross mark"
      [] sev = "Info" -> "information"
      [] OTHER -> sev

SeverityIcons(rs) == [i \in 1..Len(rs) |-> [rs[i] EXCEPT !.Severity = SeverityIcon(@)]]

\* lines 1020-1022
SeverityName(icon) ==
    CASE icon = "warning sign" -> "Warning"
      [] icon = "cross mark" -> "Error"
      [] icon = "information" -> "Info"
      [] OTHER -> icon

\* lines 946-947
ScopesOf(r) == IF r.Scope.kind = "str" THEN <<r.Scope.str>> ELSE r.Scope.list

\* the Model scope named by the name function of the dictionary (obj.Model.Name)
ScanScope_NamedByModel(tm, scope, expr) ==
    LET hit == SelectSeq(IF scope = "Model" THEN <<tm>> ELSE Collection(tm, scope),
                         LAMBDA o : Truthy(expr, o))
    IN  [i \in 1..Len(hit) |-> nm(scope, hit[i])]

\* lines 953-974: the names x collected for one rule and one scope
ScanScope(tm, scope, expr) ==
    IF scope = "Model"
    THEN IF Truthy(expr, tm) THEN <<"Model">> ELSE <<>>
    ELSE LET hit == SelectSeq(Collection(tm, scope), LAMBDA o : Truthy(expr, o))
         IN  [i \in 1..Len(hit) |-> nm(scope, hit[i])]

\* lines 976-980
NewData(x, scope, ruleName) ==
    [i \in 1..Len(x) |-> [ObjectName |-> x[i], Scope |-> scope, RuleName |-> ruleName]]

\* lines 982-1000: left merge on Rule Name, column selection
MergeRow(v, r) ==
    [Category |-> r.Category, RuleName |-> v.RuleName, Severity |-> r.Severity,
     ObjectType |-> v.Scope, ObjectName |-> v.ObjectName,
     Description |-> r.Description, URL |-> r.URL]

NoRuleRow == [Category |-> None, Severity |-> None, Description |-> None, URL |-> None]

Merge(viol, rs) ==
    Flatten([i \in 1..Len(viol) |->
        LET ms == SelectSeq(rs, LAMBDA r : r.RuleName = viol[i].RuleName)
        IN  IF Len(ms) = 0 THEN <<MergeRow(viol[i], NoRuleRow)>>
            ELSE [k \in 1..Len(ms) |-> MergeRow(viol[i], ms[k])]])

----------------------------------------------------------------------------
(* The lakehouse table and the HTML report *)

NoTable == [exists |-> FALSE, rows |-> <<>>]
Times == {20, 21}

PriorRow ==
    [Workspace_Name |-> "W1", Dataset_Name |-> "B", Category |-> "Performance",
     Rule_Name |-> "Avoid doubles", Severity |-> "Warning", Object_Type |-> "Column",
     Object_Name |-> "'T'[c1]", Description |-> None, URL |-> None,
     Timestamp |-> 10, RunId |-> 3]

InitTables == {NoTable, [exists |-> TRUE, rows |-> <<PriorRow>>]}

\* SELECT MAX(RunId)
RECURSIVE MaxRunId(_)
MaxRunId(rows) ==
    IF Len(rows) = 0 THEN 0
    ELSE LET m == MaxRunId(Tail(rows))
         IN  IF Head(rows).RunId > m THEN Head(rows).RunId ELSE m

\* a run that always writes RunId 1
NextRunId_First(table) == 1

\* lines 1024-1032
NextRunId(table) == IF table.exists = FALSE THEN 1 ELSE MaxRunId(table.rows) + 1

\* a column name is the sequence of its words: " ".join and "_".join
RECURSIVE Join(_, _)
Join(words, sep) ==
    IF Len(words) = 0 THEN ""
    ELSE IF Len(words) = 1 THEN words[1]
    ELSE words[1] \o sep \o Join(Tail(words), sep)

\* lines 990-1000: the columns of finalDF
FrameColumns ==
    << <<"Category">>, <<"Rule", "Name">>, <<"Severity">>, <<"Object", "Type">>,
       <<"Object", "Name">>, <<"Description">>, <<"URL">> >>

NoFrame == [columns |-> <<>>, rows |-> <<>>]

\* dfExport[c] = value: a new column goes last
AddColumn(cols, c) ==
    IF \E i \in 1..Len(cols) : cols[i] = c THEN cols ELSE Append(cols, c)

\* a frame whose columns stay where they were added
PopInsert_Keep(cols, loc, c) == cols

\* dfExport.insert(loc, c, dfExport.pop(c))
PopInsert(cols, loc, c) ==
    LET rest == SelectSeq(cols, LAMBDA x : x # c)
    IN  SubSeq(rest, 1, loc) \o <<c>> \o SubSeq(rest, loc + 1, Len(rest))

\* lines 1035-1045: the columns of dfExport, as words
ExportColumnWords ==
    LET added == AddColumn(AddColumn(AddColumn(AddColumn(FrameColumns,
                     <<"Workspace", "Name">>), <<"Dataset", "Name">>), <<"Timestamp">>),
                     <<"RunId">>)
    IN  PopInsert(PopInsert(added, 0, <<"Workspace", "Name">>), 1, <<"Dataset", "Name">>)

\* line 1047: columns.str.replace(" ", "_")
ExportColumns == [i \in 1..Len(ExportColumnWords) |-> Join(ExportColumnWords[i], "_")]

\* lines 1009, 1020-1047: the frame handed to spark.createDataFrame
ExportRows(df, workspace, dataset, now, rid) ==
    [i \in 1..Len(df) |->
        LET cell(w) ==
                CASE w = <<"Workspace", "Name">> -> workspace
                  [] w = <<"Dataset", "Name">> -> dataset
                  [] w = <<"Timestamp">> -> now
                  [] w = <<"RunId">> -> rid
                  [] w = <<"Severity">> -> SeverityName(df[i].Severity)
                  [] OTHER -> df[i][Join(w, "")]
        IN  [c \in {ExportColumns[k] : k \in 1..Len(ExportColumns)} |->
                cell(CHOOSE w \in {ExportColumnWords[k] : k \in 1..Len(ExportColumnWords)} :
                         Join(w, "_") = c)]]

\* write.mode("overwrite")
AppendRows_Overwrite(table, rows) == [exists |-> TRUE, rows |-> rows]

\* write.mode("append").saveAsTable
AppendRows(table, rows) == [exists |-> TRUE, rows |-> table.rows \o rows]

\* the strings of the result frame in the order sort_values puts them
Collation ==
    << "'T'[MonthName]", "'T'[MonthNo]", "'T'[Month]", "'T'[Months]",
       "'T'[c1]", "'T'[c1] -> 'T'[c2]", "'T'[c2]", "Avoid doubles",
       "Avoid excessive bi-directional or many-to-many relationships",
       "Check if bi-directional and many-to-many relationships are valid", "Column",
       "Do not use floating point data types", "Error Prevention", "Everything",
       "Formatting", "Known names",
       "Maintenance", "Many-to-many relationships should be single-direction", "Measure",
       "Model", "Model always", "Model never", "Month (as a string) must be sorted",
       "Performance", "Relationship",
       "Set IsAvailableInMdx to false on non-attribute columns",
       "Set IsAvailableInMdx to true on necessary columns",
       "Set dimensions tables to dual mode instead of import when using DirectQuery on fact tables",
       "T", "Table", "m1" >>

Rank(str) == CHOOSE i \in 1..Len(Collation) : Collation[i] = str

\* the order of sort_values(["Category", "Rule Name", "Object Type", "Object Name"])
RowLess(a, b) ==
    LET ka == <<Rank(a.Category), Rank(a.RuleName), Rank(a.ObjectType), Rank(a.ObjectName)>>
        kb == <<Rank(b.Category), Rank(b.RuleName), Rank(b.ObjectType), Rank(b.ObjectName)>>
    IN  \E k \in 1..4 : ka[k] < kb[k] /\ \A j \in 1..(k - 1) : ka[j] = kb[j]

RECURSIVE SortRows(_)
SortRows(df) ==
    IF Len(df) <= 1 THEN df
    ELSE LET front == SortRows(SubSeq(df, 1, Len(df) - 1))
             x == df[Len(df)]
             keep == Cardinality({i \in 1..Len(front) : ~RowLess(x, front[i])})
         IN  SubSeq(front, 1, keep) \o <<x>> \o SubSeq(front, keep + 1, Len(front))

\* bpa2["Category"].drop_duplicates()
RECURSIVE Categories(_)
Categories(df) ==
    IF Len(df) = 0 THEN <<>>
    ELSE LET front == Categories(SubSeq(df, 1, Len(df) - 1))
             c == df[Len(df)].Category
         IN  IF \E i \in 1..Len(front) : front[i] = c THEN front ELSE Append(front, c)

\* the severities of the rows, each counted once
SeverityCounts_Unique(rows) == { <<rows[i].Severity, 1>> : i \in 1..Len(rows) }

\* df["Severity"].value_counts()
SeverityCounts(rows) ==
    { <<sev, Cardinality({i \in 1..Len(rows) : rows[i].Severity = sev})>> :
        sev \in {rows[i].Severity : i \in 1..Len(rows)} }

NoHtml == [buttons |-> <<>>, contents |-> <<>>]

\* lines 1059-1169: one button and one content block per category of the sorted frame
Html(df) ==
    LET sorted == SortRows(df)
        cats == Categories(sorted)
        tabRows(c) == SelectSeq(sorted, LAMBDA r : r.Category = c)
    IN  [buttons |-> [i \in 1..Len(cats) |->
                         [tab_id |-> i - 1, active |-> (i - 1 = 0), title |-> cats[i],
                          summary |-> SeverityCounts(tabRows(cats[i]))]],
         contents |-> [i \in 1..Len(cats) |->
                         [tab_id |-> i - 1, active |-> (i - 1 = 0),
                          rows |-> [k \in 1..Len(tabRows(cats[i])) |->
                              LET r == tabRows(cats[i])[k]
                              IN  [RuleName |-> r.RuleName, ObjectType |-> r.ObjectType,
                                   ObjectName |-> r.ObjectName, Severity |-> r.Severity,
                                   link |-> r.URL,
                                   tooltip |-> IF r.URL # None \/ r.Description # None
                                               THEN r.Description ELSE None]]]]]

----------------------------------------------------------------------------
(* model_bpa_rules and run_model_bpa *)

NoBArgs == [dataset |-> None, workspace |-> None, rulesGiven |-> FALSE, rules |-> <<>>,
            export |-> FALSE, return_dataframe |-> FALSE, extended |-> FALSE]

\* another call that has not reached its export block
OtherIdle == [pc |-> "idle", runId |-> 0, runs |-> 0]

BpaIdle ==
    /\ annotated = FALSE
    /\ conns = <<>>
    /\ deltaTable0 = deltaTable
    /\ bpc = "idle"
    /\ bArgs = NoBArgs
    /\ rules = <<>>
    /\ ri = 1
    /\ si = 1
    /\ violations = <<>>
    /\ finalDF = <<>>
    /\ runId = 0
    /\ displayed = NoHtml
    /\ bOutcome = "none"
    /\ bRet = NoFrame
    /\ nDisplay = 0
    /\ lakeOps = {}
    /\ exportColumns = <<>>
    /\ closedReads = 0
    /\ exportLog = <<>>
    /\ other = OtherIdle

\* every connection opened read/write
Connection_ReadWrite(readonly, by) == [readonly |-> FALSE, by |-> by]

\* connect_semantic_model(dataset, workspace, readonly) entered by a function
Connection(readonly, by) == [readonly |-> readonly, by |-> by]

\* a with block that leaves its connection open
CloseLast_Leak(cs) == cs

\* leaving the with block of the connection opened last
CloseLast(cs) == SubSeq(cs, 1, Len(cs) - 1)

scanVars == <<rules, ri, si, violations, finalDF, closedReads>>
outVars == <<deltaTable, deltaTable0, runId, displayed, bOutcome, bRet, nDisplay, lakeOps,
            exportColumns, exportLog, other>>

CallRunModelBpa(dataset, rulesGiven, rulesArg, workspace, export, return_dataframe, extended) ==
    /\ bpc = "idle"
    /\ bArgs' = [dataset |-> dataset, workspace |-> workspace, rulesGiven |-> rulesGiven,
                 rules |-> rulesArg, export |-> export,
                 return_dataframe |-> return_dataframe, extended |-> extended]
    /\ bpc' = "b_ext"
    /\ UNCHANGED <<genVars, lakehouseAttached, tom, annotated, conns, scanVars, outVars>>

\* lines 880-883: with extended, open the read/write connection
BpaExtended ==
    /\ bpc = "b_ext"
    /\ IF bArgs.extended
       THEN /\ conns' = Append(conns, Connection(FALSE, "run_model_bpa"))
            /\ bpc' = "b_annot"
       ELSE /\ bpc' = "b_open"
            /\ UNCHANGED conns
    /\ UNCHANGED <<genVars, lakehouseAttached, tom, annotated, bArgs, scanVars, outVars>>

\* line 884 and the end of its with block
BpaAnnotate ==
    /\ bpc = "b_annot"
    /\ annotated' = TRUE
    /\ conns' = CloseLast(conns)
    /\ bpc' = "b_open"
    /\ UNCHANGED <<genVars, lakehouseAttached, tom, bArgs, scanVars, outVars>>

\* lines 886-888: open the read-only connection of the scan
BpaOpenScan ==
    /\ bpc = "b_open"
    /\ conns' = Append(conns, Connection(TRUE, "run_model_bpa"))
    /\ bpc' = "b_rules"
    /\ UNCHANGED <<genVars, lakehouseAttached, tom, annotated, bArgs, scanVars, outVars>>

\* lines 890-903: the rules passed in, or a call of model_bpa_rules
BpaRules ==
    /\ bpc = "b_rules"
    /\ IF bArgs.rulesGiven = FALSE
       THEN /\ bpc' = "r_open"
            /\ UNCHANGED rules
       ELSE /\ rules' = SeverityIcons(bArgs.rules)
            /\ bpc' = "b_loop"
    /\ UNCHANGED <<genVars, lakehouseAttached, tom, annotated, conns, bArgs, ri, si,
                   violations, finalDF, closedReads, outVars>>

\* model_bpa_rules, lines 40-44: it opens a connection of its own
RulesOpen ==
    /\ bpc = "r_open"
    /\ conns' = Append(conns, Connection(TRUE, "model_bpa_rules"))
    /\ bpc' = "r_build"
    /\ UNCHANGED <<genVars, lakehouseAttached, tom, annotated, bArgs, scanVars, outVars>>

\* model_bpa_rules, lines 46-828: build the table, leave the with block, return;
\* run_model_bpa, lines 897-903
RulesReturn ==
    /\ bpc = "r_build"
    /\ conns' = CloseLast(conns)
    /\ rules' = SeverityIcons(DefaultRules)
    /\ bpc' = "b_loop"
    /\ UNCHANGED <<genVars, lakehouseAttached, tom, annotated, bArgs, ri, si, violations,
                   finalDF, closedReads, outVars>>

\* the evaluations of a default predicate that call a method of the tom
\* captured in model_bpa_rules (and and or evaluate left to right)
CapturedReads(tm, scope, expr) ==
    LET coll == IF scope = "Model" THEN <<tm>> ELSE Collection(tm, scope)
    IN  CASE expr \in {"d_mdx", "d_mdx_true"} -> Len(coll)
          [] expr = "d_dual" ->
                 Cardinality({k \in 1..Len(coll) :
                     /\ Cardinality({p \in 1..Len(coll[k].Partitions) :
                                        coll[k].Partitions[p].Mode = "Import"}) = 1
                     /\ Len(coll[k].Partitions) = 1})
          [] OTHER -> 0

\* the connection of model_bpa_rules is not among the open ones
RulesConnectionClosed(cs) == \A i \in 1..Len(cs) : cs[i].by # "model_bpa_rules"

\* reads the current step of the scan makes through a closed connection
ClosedReadsOfStep ==
    IF bpc = "b_loop" /\ ri <= Len(rules) /\ si <= Len(ScopesOf(rules[ri]))
          /\ RulesConnectionClosed(conns)
    THEN CapturedReads(tom, ScopesOf(rules[ri])[si], rules[ri].Expression)
    ELSE 0

\* lines 941-980: one rule row and one of its scopes; a predicate that reads
\* through the closed connection of model_bpa_rules finds the metadata the
\* wrapper still holds
BpaScanStep ==
    /\ bpc = "b_loop"
    /\ ri <= Len(rules)
    /\ closedReads' = closedReads + ClosedReadsOfStep
    /\ LET r == rules[ri]
           scopes == ScopesOf(r)
       IN  /\ IF si <= Len(scopes)
              THEN violations' = violations \o
                       NewData(ScanScope(tom, scopes[si], r.Expression), scopes[si],
                               r.RuleName)
              ELSE UNCHANGED violations
           /\ IF si < Len(scopes)
              THEN /\ si' = si + 1
                   /\ UNCHANGED ri
              ELSE /\ si' = 1
                   /\ ri' = ri + 1
    /\ UNCHANGED <<genVars, lakehouseAttached, tom, annotated, conns, bpc, bArgs, rules,
                   finalDF, outVars>>

\* lines 941-980: the same step when the read through the closed connection
\* raises; the exception leaves the with block of the scan connection
BpaScanFail ==
    /\ bpc = "b_loop"
    /\ ClosedReadsOfStep > 0
    /\ closedReads' = closedReads + 1
    /\ conns' = CloseLast(conns)
    /\ bOutcome' = "TOMError"
    /\ bpc' = "done"
    /\ UNCHANGED <<genVars, lakehouseAttached, tom, annotated, bArgs, rules, ri, si,
                   violations, finalDF, deltaTable, deltaTable0, runId, displayed, bRet,
                   nDisplay, lakeOps, exportColumns, exportLog, other>>

\* lines 982-1000 and the end of the with block of the scan connection
BpaFinishScan ==
    /\ bpc = "b_loop"
    /\ ri > Len(rules)
    /\ finalDF' = Merge(violations, rules)
    /\ conns' = CloseLast(conns)
    /\ bpc' = "b_export"
    /\ UNCHANGED <<genVars, lakehouseAttached, tom, annotated, bArgs, rules, ri, si,
                   violations, closedReads, outVars>>

\* testing lakeAttach against None
NoLakehouse_IsNone(attached) == FALSE

\* lakeAttach is False
NoLakehouse(attached) == attached = FALSE

\* lines 1017-1032: what the export does on the lakehouse before it appends
ExportOps(table) ==
    {"get_lakehouse_tables"} \cup (IF table.exists THEN {"SELECT MAX(RunId)"} ELSE {})

\* an entry of the log: run 0 is the call, run k the k-th run of the other one
ReadEvent(run, rid) == [run |-> run, ev |-> "read", RunId |-> rid, n |-> 0]
AppendEvent(run, rid, n) == [run |-> run, ev |-> "append", RunId |-> rid, n |-> n]

\* lines 1002-1032: the lakehouse check, the table listing and the RunId
BpaExport ==
    /\ bpc = "b_export"
    /\ IF bArgs.export
       THEN IF NoLakehouse(lakehouseAttached)
            THEN /\ bOutcome' = "ValueError"
                 /\ bpc' = "done"
                 /\ UNCHANGED <<runId, lakeOps, exportLog>>
            ELSE /\ runId' = NextRunId(deltaTable)
                 /\ lakeOps' = lakeOps \cup ExportOps(deltaTable)
                 /\ exportLog' = Append(exportLog, ReadEvent(0, NextRunId(deltaTable)))
                 /\ bpc' = "b_append"
                 /\ UNCHANGED bOutcome
       ELSE /\ bpc' = "b_return"
            /\ UNCHANGED <<runId, bOutcome, lakeOps, exportLog>>
    /\ UNCHANGED <<genVars, lakehouseAttached, tom, annotated, conns, bArgs, scanVars,
                   deltaTable, deltaTable0, displayed, bRet, nDisplay, exportColumns, other>>

\* lines 1034-1049: the columns of the run and the append
BpaAppend ==
    /\ bpc = "b_append"
    /\ \E now \in Times :
          deltaTable' = AppendRows(deltaTable,
                            ExportRows(finalDF, ResolveWorkspace(bArgs.workspace),
                                       bArgs.dataset, now, runId))
    /\ lakeOps' = lakeOps \cup {"saveAsTable"}
    /\ exportColumns' = ExportColumns
    /\ exportLog' = Append(exportLog, AppendEvent(0, runId, Len(finalDF)))
    /\ bpc' = "b_return"
    /\ UNCHANGED <<genVars, lakehouseAttached, tom, annotated, conns, bArgs, scanVars,
                   deltaTable0, runId, displayed, bOutcome, bRet, nDisplay, other>>

\* the result frame of the other call: one violation
OtherFrame ==
    << [Category |-> "Performance", RuleName |-> "Do not use floating point data types",
        Severity |-> "warning sign", ObjectType |-> "Column", ObjectName |-> "'T'[c1]",
        Description |-> None, URL |-> None] >>

\* lines 1017-1032 in the other call
OtherExport ==
    /\ other.pc = "idle"
    /\ other.runs < MaxOtherRuns
    /\ other' = [other EXCEPT !.pc = "o_append", !.runId = NextRunId(deltaTable)]
    /\ exportLog' = Append(exportLog, ReadEvent(other.runs + 1, NextRunId(deltaTable)))
    /\ UNCHANGED <<genVars, lakehouseAttached, tom, annotated, conns, bpc, bArgs, scanVars,
                   deltaTable, deltaTable0, runId, displayed, bOutcome, bRet, nDisplay,
                   lakeOps, exportColumns>>

\* lines 1034-1049 in the other call
OtherAppend ==
    /\ other.pc = "o_append"
    /\ \E now \in Times :
          deltaTable' = AppendRows(deltaTable,
                            ExportRows(OtherFrame, DefaultWorkspace, "B", now, other.runId))
    /\ exportLog' = Append(exportLog,
                           AppendEvent(other.runs + 1, other.runId, Len(OtherFrame)))
    /\ other' = [other EXCEPT !.pc = "idle", !.runs = @ + 1]
    /\ UNCHANGED <<genVars, lakehouseAttached, tom, annotated, conns, bpc, bArgs, scanVars,
                   deltaTable0, runId, displayed, bOutcome, bRet, nDisplay, lakeOps,
                   exportColumns>>

\* a call that never returns the frame
ReturnsFrame_Never(return_dataframe) == FALSE

\* line 1054: if return_dataframe
ReturnsFrame(return_dataframe) == return_dataframe

\* lines 1054-1172
BpaReturn ==
    /\ bpc = "b_return"
    /\ IF ReturnsFrame(bArgs.return_dataframe)
       THEN /\ bOutcome' = "returned_df"
            /\ bRet' = [columns |-> [i \in 1..Len(FrameColumns) |-> Join(FrameColumns[i], " ")],
                        rows |-> finalDF]
            /\ UNCHANGED <<displayed, nDisplay>>
       ELSE /\ displayed' = Html(finalDF)
            /\ nDisplay' = nDisplay + 1
            /\ bOutcome' = "returned"
            /\ UNCHANGED bRet
    /\ bpc' = "done"
    /\ UNCHANGED <<genVars, lakehouseAttached, tom, annotated, conns, bArgs, scanVars,
                   deltaTable, deltaTable0, runId, lakeOps, exportColumns, exportLog, other>>

NextBpa ==
    \/ \E g \in BOOLEAN, t \in RuleTables, e \in BOOLEAN, d \in BOOLEAN, x \in BOOLEAN :
          /\ (g = FALSE => t = <<>>)
          /\ CallRunModelBpa("A", g, t, None, e, d, x)
    \/ BpaExtended
    \/ BpaAnnotate
    \/ BpaOpenScan
    \/ BpaRules
    \/ RulesOpen
    \/ RulesReturn
    \/ BpaScanStep
    \/ BpaScanFail
    \/ BpaFinishScan
    \/ BpaExport
    \/ BpaAppend
    \/ BpaReturn

InitGen ==
    /\ items \in [Workspaces -> [Datasets -> BimValues \cup {NoItem}]]
    /\ GenIdle
    /\ lakehouseAttached \in BOOLEAN
    /\ tom \in {t \in TomModels : t.Columns = <<>> /\ t.Measures = <<>>
                                  /\ t.Relationships = <<>>}
    /\ deltaTable = NoTable
    /\ BpaIdle

InitBpa ==
    /\ items = [w \in Workspaces |-> [d \in Datasets |->
                   IF d = "A" THEN [name |-> <<65>>, compatibilityLevel |-> 1500]
                   ELSE NoItem]]
    /\ GenIdle
    /\ lakehouseAttached \in BOOLEAN
    /\ tom \in TomModels
    /\ deltaTable \in InitTables
    /\ BpaIdle

SpecBpa == InitBpa /\ [][NextBpa]_vars

\* the models the call scans while another call exports
ConcModels ==
    MonthModels \cup {t \in TomModels : t.Columns = <<>> /\ t.Measures = <<>>
                                         /\ t.Relationships = <<>>}

InitConc ==
    /\ items = [w \in Workspaces |-> [d \in Datasets |->
                   IF d = "A" THEN [name |-> <<65>>, compatibilityLevel |-> 1500]
                   ELSE NoItem]]
    /\ GenIdle
    /\ lakehouseAttached \in BOOLEAN
    /\ tom \in ConcModels
    /\ deltaTable \in InitTables
    /\ BpaIdle

\* a call of run_model_bpa with the default rules next to the export runs of
\* another call on the same lakehouse
NextConc ==
    \/ \E e \in BOOLEAN, d \in BOOLEAN, x \in BOOLEAN :
          CallRunModelBpa("A", FALSE, <<>>, None, e, d, x)
    \/ BpaExtended
    \/ BpaAnnotate
    \/ BpaOpenScan
    \/ BpaRules
    \/ RulesOpen
    \/ RulesReturn
    \/ BpaScanStep
    \/ BpaScanFail
    \/ BpaFinishScan
    \/ BpaExport
    \/ BpaAppend
    \/ BpaReturn
    \/ OtherExport
    \/ OtherAppend

SpecConc == InitConc /\ [][NextConc]_vars

TypeOKBpa ==
    /\ bpc \in {"idle", "b_ext", "b_annot", "b_open", "b_rules", "r_open", "r_build",
                "b_loop", "b_export", "b_append", "b_return", "done"}
    /\ Len(conns) <= 2
    /\ runId >= 0

----------------------------------------------------------------------------

NextGen ==
    \/ \E d \in Datasets, l \in CompatLevels, w \in Workspaces \cup {None} :
          CreateBlank(d, l, w)
    \/ \E d \in Datasets, b \in BimValues, w \in Workspaces \cup {None} :
          CallCreateFromBim(d, b, w)
    \/ CreateCheck
    \/ CreatePost
    \/ CreateFirstPoll
    \/ CreateLoop
    \/ CreateSleepPoll
    \/ CreateResult
    \/ LroStart
    \/ LroFinish
    \/ \E d \in Datasets, w \in Workspaces \cup {None}, f \in SaveNames \cup {None} :
          CallGetBim(d, w, f)
    \/ GetBim
    \/ \E d \in Datasets, nd \in Datasets \cup {None},
          w \in Workspaces \cup {None}, nw \in Workspaces \cup {None} :
          Deploy(d, nd, w, nw)

SpecGen == InitGen /\ [][NextGen]_vars

\* One workspace content, for the properties of whole runs: the call runs on
\* (a step is taken whenever one can be) and the service works on the
\* operation it accepted.
InitPoll ==
    /\ InitGen
    /\ items = [w \in Workspaces |-> [d \in Datasets |->
                    IF w = "W1" /\ d = "A"
                    THEN [name |-> <<65>>, compatibilityLevel |-> 1500] ELSE NoItem]]
    /\ lakehouseAttached = TRUE

FairGen ==
    /\ InitPoll
    /\ [][NextGen]_vars
    /\ WF_vars(CreateFirstPoll)
    /\ WF_vars(CreateLoop) /\ WF_vars(CreateSleepPoll)
    /\ WF_vars(CreateResult)
    /\ WF_vars(LroStart)
    /\ WF_vars(LroFinish)

TypeOKGen ==
    /\ pc \in {"idle", "c_check", "c_post", "c_poll", "c_loop", "c_sleep", "c_result", "g_run", "done"}
    /\ lro \in {"None", "NotStarted", "Running", "Succeeded", "Failed"}
    /\ nPolls \in 0..MaxPolls
    /\ nPosts \in 0..1

----------------------------------------------------------------------------
(* Properties of _generate_semantic_model *)

Done == pc = "done"
Terminal == {"Succeeded", "Failed"}

\* the source and the target of a deploy_semantic_model call, from its arguments
SrcWs == ResolveWorkspace(args.workspace)
TgtWs == IF args.new_dataset_workspace = None THEN SrcWs ELSE args.new_dataset_workspace
TgtName == IF args.new_dataset = None THEN args.dataset ELSE args.new_dataset

\* C2: once the item-creation POST was answered 202 and the operation has
\* reached a terminal status (Succeeded or Failed), the polling loop exits
\* and the call terminates.
C2_PollingTerminates ==
    (postStatus = 202 /\ lro \in Terminal) ~> Done

\* C3: a call whose item-creation POST was answered with a status other than
\* 201 or 202, or whose operation ended Failed, does not return normally: it
\* ends with an error at the caller.
C3_FailedCreationRaises ==
    (Done /\ nPosts > 0 /\ (postStatus \notin {201, 202} \/ lro = "Failed"))
        => outcome \notin {"none", "returned"}

\* C4: create_semantic_model_from_bim called for a dataset name that exists in
\* the target workspace raises ValueError, sends no item-creation POST and
\* leaves the items of every workspace as they were.
C4_DuplicateNameRaises ==
    (Done /\ cArgs.bim_file # NoItem
          /\ items0[ResolveWorkspace(cArgs.workspace)][cArgs.dataset] # NoItem)
        => (outcome = "ValueError" /\ nPosts = 0 /\ postStatus = 0 /\ items = items0)

C4_Witness ==
    /\ Done
    /\ fn = "create_semantic_model_from_bim"
    /\ items0[ResolveWorkspace(cArgs.workspace)][cArgs.dataset] # NoItem
    /\ outcome = "ValueError"

\* C5: create_blank_semantic_model raises ValueError exactly when
\* compatibility_level < 1500; when it raises no TMSL script was executed and
\* no model changed; otherwise exactly one createOrReplace script, carrying
\* the dataset name and the compatibility level, was executed against the
\* resolved workspace.
C5_BlankModelCompatCheck ==
    (Done /\ fn = "create_blank_semantic_model") =>
        /\ (outcome = "ValueError") <=> (args.compatibility_level < 1500)
        /\ outcome = "ValueError" => (tmslLog = <<>> /\ items = items0)
        /\ outcome # "ValueError" =>
              /\ Len(tmslLog) = 1
              /\ tmslLog[1].workspace = ResolveWorkspace(args.workspace)
              /\ tmslLog[1].script.command = "createOrReplace"
              /\ tmslLog[1].script.object = args.dataset
              /\ tmslLog[1].script.name = args.dataset
              /\ tmslLog[1].script.compatibilityLevel = args.compatibility_level

C5_Witness ==
    /\ Done
    /\ fn = "create_blank_semantic_model"
    /\ args.compatibility_level = 1500
    /\ outcome = "returned"
    /\ Len(tmslLog) = 1
    /\ items[ResolveWorkspace(args.workspace)][args.dataset].compatibilityLevel = 1500

C7_DeployCopiesBim ==
    (fn = "deploy_semantic_model" /\ items0[TgtWs][TgtName] = NoItem
        /\ (TgtName # args.dataset \/ TgtWs # SrcWs)) =>
        /\ nPosts > 0 =>
              /\ postedPayload.displayName = TgtName
              /\ DecodePayload(postedPayload.payloadBim) = items0[SrcWs][args.dataset]
        /\ (postStatus = 201 \/ lro = "Succeeded") =>
              /\ items[TgtWs][TgtName] = items0[SrcWs][args.dataset]
              /\ items[TgtWs][TgtName] # NoItem
        /\ \A w \in Workspaces, d \in Datasets :
              (w # TgtWs \/ d # TgtName) => items[w][d] = items0[w][d]

C7_Witness ==
    /\ Done
    /\ fn = "deploy_semantic_model"
    /\ outcome = "returned"
    /\ TgtWs # SrcWs
    /\ items0[TgtWs][TgtName] = NoItem
    /\ items[TgtWs][TgtName] = items0[SrcWs][args.dataset]
    /\ items[TgtWs][TgtName].name = <<34, 92, 233, 66>>
    /\ lro = "Succeeded"

\* C9: the success message is printed only once the creation is confirmed
\* (POST answered 201, or answered 202 and a status poll returned Succeeded);
\* the result endpoint is requested only after a poll returned Succeeded; the
\* item-creation POST is sent at most once per call.
C9_ResultOnlyAfterSucceeded ==
    /\ "has been created" \in printed =>
          (postStatus = 201 \/ (postStatus = 202 /\ lastPoll = "Succeeded"))
    /\ (nResult > 0 \/ pc = "c_result") =>
          (postStatus = 202 /\ lastPoll = "Succeeded" /\ nPolls > 0)
    /\ nPosts <= 1
    /\ nResult <= 1

C9_Witness ==
    /\ Done
    /\ nResult = 1
    /\ nPolls = MaxPolls
    /\ lastPoll = "Succeeded"
    /\ "has been created" \in printed

----------------------------------------------------------------------------
(* Properties of run_model_bpa *)

\* the scan ran to its end
ScanDone == bpc \in {"b_export", "b_append", "b_return", "done"} /\ bOutcome # "TOMError"

ViolationSet == {violations[k] : k \in 1..Len(violations)}

\* the objects of a scope for which a rule's predicate is truthy
Flagged(r, sc) ==
    LET coll == Collection(tom, sc)
    IN  {k \in 1..Len(coll) : Truthy(r.Expression, coll[k])}

\* the entries one rule row and one of its scopes must yield
ExpectedEntries(r, sc) ==
    IF sc = "Model"
    THEN IF Truthy(r.Expression, tom)
         THEN {[ObjectName |-> "Model", Scope |-> "Model", RuleName |-> r.RuleName]}
         ELSE {}
    ELSE {[ObjectName |-> nm(sc, Collection(tom, sc)[k]), Scope |-> sc,
           RuleName |-> r.RuleName] : k \in Flagged(r, sc)}

RuleScopes(r) == {ScopesOf(r)[j] : j \in 1..Len(ScopesOf(r))}

\* C1: once the scan is over the violations are exactly: for every rule row
\* and every scope listed for it, one entry (object name, scope, rule name)
\* per object of the scope whose predicate is truthy, none for an object
\* whose predicate is falsy, and for scope 'Model' at most one entry, named
\* 'Model'.
C1_ViolationsAreFlaggedObjects ==
    ScanDone =>
        /\ ViolationSet =
              UNION { UNION { ExpectedEntries(rules[i], sc) : sc \in RuleScopes(rules[i]) } :
                      i \in 1..Len(rules) }
        /\ \A i \in 1..Len(rules) : \A sc \in RuleScopes(rules[i]) :
              LET n == Cardinality({k \in 1..Len(violations) :
                            /\ violations[k].RuleName = rules[i].RuleName
                            /\ violations[k].Scope = sc})
              IN  IF sc = "Model"
                  THEN n = (IF Truthy(rules[i].Expression, tom) THEN 1 ELSE 0)
                  ELSE n = Cardinality(Flagged(rules[i], sc))
        /\ \A k \in 1..Len(violations) :
              violations[k].Scope = "Model" => violations[k].ObjectName = "Model"

C1_Witness ==
    /\ bpc = "done"
    /\ bArgs.rulesGiven
    /\ Len(rules) = 2
    /\ \E i \in 1..2 : rules[i].RuleName = "Known names"
    /\ \E i \in 1..2 : rules[i].RuleName = "Model always"
    /\ Len(tom.Columns) = 2
    /\ Len(tom.Measures) = 1
    /\ Len(violations) = 3
    /\ \E k \in 1..3 : violations[k].ObjectName = "Model"
    /\ \E k \in 1..3 : violations[k].ObjectName = "'T'[c1]"
    /\ \A k \in 1..3 : violations[k].ObjectName # "'T'[c2]"

\* C8: at every moment of a run_model_bpa call at most one TOM connection is
\* open.
C8_AtMostOneConnection == Len(conns) <= 1

\* C8 as amended: a second connection is open only while model_bpa_rules
\* builds the default rules (rules is None), it is read-only and is opened
\* inside the read-only scan connection; with rules passed in at most one
\* connection is open; the read/write connection is never open together with
\* another one.
C8_ConnectionsNested ==
    /\ Len(conns) <= 2
    /\ bArgs.rulesGiven => Len(conns) <= 1
    /\ Len(conns) = 2 =>
          /\ bpc = "r_build"
          /\ conns[1] = Connection(TRUE, "run_model_bpa")
          /\ conns[2] = Connection(TRUE, "model_bpa_rules")
    /\ \A i \in 1..Len(conns) : conns[i].readonly = FALSE => Len(conns) = 1
    /\ bpc \in {"b_rules", "r_open", "r_build", "b_loop"} =>
          (Len(conns) >= 1 /\ conns[1] = Connection(TRUE, "run_model_bpa"))
    /\ bpc \in {"idle", "b_ext", "b_open", "b_export", "b_append", "b_return", "done"} => conns = <<>>

C8_Witness ==
    /\ bpc = "r_build"
    /\ bArgs.extended
    /\ annotated
    /\ Len(conns) = 2

\* C10: run_model_bpa with export=True and no lakehouse attached raises
\* ValueError; no row is appended to the delta table and no RunId is
\* allocated.
C10_ExportNeedsLakehouse ==
    (bArgs.export /\ lakehouseAttached = FALSE) =>
        /\ deltaTable = deltaTable0
        /\ runId = 0
        /\ bpc # "b_return"
        /\ (bpc = "done" /\ ScanDone) => (bOutcome = "ValueError" /\ displayed = NoHtml)

C10_Witness ==
    /\ bpc = "done"
    /\ bArgs.export
    /\ lakehouseAttached = FALSE
    /\ bOutcome = "ValueError"
    /\ Len(finalDF) > 0
    /\ deltaTable.exists

----------------------------------------------------------------------------
(* Properties of get_semantic_model_bim *)

NoFiles == [p \in FilePaths |-> NoItem]

\* C13: get_semantic_model_bim with save_to_file_name set and no lakehouse
\* attached never returns and writes no file: once the definition has been
\* fetched it raises ValueError (a missing dataset or a failed request ends the
\* call before that).  Without save_to_file_name the call never asks whether
\* a lakehouse is attached, writes no file, and what it returns is the BIM of
\* the model, decoded from the payload.
C13_SaveNeedsLakehouse ==
    LET w == ResolveWorkspace(gArgs.workspace)
        d == gArgs.dataset
        exists == ListItemsFilt(items, w, d) # {}
    IN  /\ (gArgs.save_to_file_name = None) =>
               /\ nLakeCheck = 0
               /\ files = NoFiles
        /\ (fn = "get_semantic_model_bim" /\ Done /\ gArgs.save_to_file_name = None) =>
               /\ exists => outcome \in {"returned", "HTTPError"}
               /\ outcome = "returned" => bimRet = items[w][d] /\ bimRet # NoItem
        /\ (fn = "get_semantic_model_bim" /\ Done /\ gArgs.save_to_file_name # None
                /\ lakehouseAttached = FALSE) =>
               /\ outcome # "returned"
               /\ bimRet = NoItem
               /\ files = NoFiles
               /\ exists => outcome \in {"ValueError", "HTTPError"}
               /\ (outcome = "ValueError") <=> (nLakeCheck = 1)

C13_Witness ==
    /\ fn = "get_semantic_model_bim"
    /\ Done
    /\ gArgs.save_to_file_name = "m"
    /\ lakehouseAttached = FALSE
    /\ nGetDef = 1
    /\ nLakeCheck = 1
    /\ outcome = "ValueError"

----------------------------------------------------------------------------
(* Properties of the export and of the value run_model_bpa returns *)

\* the rows the running call added to the delta table
AppendedRows == SubSeq(deltaTable.rows, Len(deltaTable0.rows) + 1, Len(deltaTable.rows))

Exported == "saveAsTable" \in lakeOps

\* C11: the frame run_model_bpa appends to the delta table has the columns
\* Workspace_Name, Dataset_Name, Category, Rule_Name, Severity, Object_Type,
\* Object_Name, Description, URL, Timestamp, RunId in this order; every
\* appended row has exactly these columns, carries the resolved workspace and
\* the dataset argument, and all rows of the run share one Timestamp and one
\* RunId; there is one appended row per row of the result frame.
C11_ExportedColumns ==
    Exported =>
        /\ exportColumns = << "Workspace_Name", "Dataset_Name", "Category", "Rule_Name",
                              "Severity", "Object_Type", "Object_Name", "Description",
                              "URL", "Timestamp", "RunId" >>
        /\ Len(AppendedRows) = Len(finalDF)
        /\ \A i \in 1..Len(AppendedRows) :
              /\ DOMAIN AppendedRows[i] = {exportColumns[k] : k \in 1..Len(exportColumns)}
              /\ AppendedRows[i].Workspace_Name = ResolveWorkspace(bArgs.workspace)
              /\ AppendedRows[i].Workspace_Name \in Workspaces
              /\ AppendedRows[i].Dataset_Name = bArgs.dataset
              /\ AppendedRows[i].RunId = runId
              /\ AppendedRows[i].Timestamp = AppendedRows[1].Timestamp
              /\ AppendedRows[i].Timestamp \in Times
              /\ AppendedRows[i].Category = finalDF[i].Category
              /\ AppendedRows[i].Rule_Name = finalDF[i].RuleName
              /\ AppendedRows[i].Object_Type = finalDF[i].ObjectType
              /\ AppendedRows[i].Object_Name = finalDF[i].ObjectName

C11_Witness ==
    /\ bpc = "done"
    /\ Exported
    /\ bArgs.workspace = None
    /\ deltaTable0.exists
    /\ Len(AppendedRows) >= 2
    /\ AppendedRows[1].RunId = 4
    /\ AppendedRows[2].Object_Type # AppendedRows[1].Object_Type

\* C12: the rows the delta table held when the call started are still its
\* first rows, unchanged, at every moment of the call, and a table that
\* existed still exists; a call with export=False leaves the table as it was
\* and neither lists the lakehouse tables nor queries or writes the table.
C12_ExportAppendOnly ==
    /\ Len(deltaTable.rows) >= Len(deltaTable0.rows)
    /\ SubSeq(deltaTable.rows, 1, Len(deltaTable0.rows)) = deltaTable0.rows
    /\ deltaTable0.exists => deltaTable.exists
    /\ bArgs.export = FALSE => (deltaTable = deltaTable0 /\ lakeOps = {} /\ runId = 0)
    /\ Exported => (bArgs.export /\ Len(AppendedRows) = Len(finalDF))

C12_Witness ==
    /\ bpc = "done"
    /\ bArgs.export
    /\ Exported
    /\ deltaTable0.rows = <<PriorRow>>
    /\ Len(deltaTable.rows) = 3
    /\ deltaTable.rows[1] = PriorRow

\* C14: a run_model_bpa call that returns with return_dataframe=True returns
\* the result frame, with the columns Category, Rule Name, Severity, Object
\* Type, Object Name, Description, URL, and has displayed nothing; one that
\* returns with return_dataframe=False has displayed the HTML report of the
\* result frame once and returns no frame; in both cases, with export=True,
\* the rows of the run are in the delta table by then.
C14_ReturnDataframe ==
    /\ nDisplay <= 1
    /\ (nDisplay = 1 \/ displayed # NoHtml) => (bArgs.return_dataframe = FALSE /\ bpc = "done")
    /\ bRet # NoFrame => (bArgs.return_dataframe /\ bpc = "done")
    /\ (bpc = "done" /\ bOutcome \in {"returned", "returned_df"}) =>
          /\ IF bArgs.return_dataframe
             THEN /\ bOutcome = "returned_df"
                  /\ bRet.columns = << "Category", "Rule Name", "Severity", "Object Type",
                                       "Object Name", "Description", "URL" >>
                  /\ bRet.rows = finalDF
                  /\ \A i \in 1..Len(bRet.rows) :
                        DOMAIN bRet.rows[i] =
                            {Join(FrameColumns[k], "") : k \in 1..Len(FrameColumns)}
                  /\ nDisplay = 0
                  /\ displayed = NoHtml
             ELSE /\ bOutcome = "returned"
                  /\ nDisplay = 1
                  /\ displayed = Html(finalDF)
                  /\ bRet = NoFrame
          /\ bArgs.export =>
                (Exported /\ runId >= 1 /\ Len(AppendedRows) = Len(finalDF))
          /\ bArgs.export = FALSE => ~Exported

C14_Witness ==
    /\ bpc = "done"
    /\ bArgs.return_dataframe
    /\ bArgs.export
    /\ bOutcome = "returned_df"
    /\ Len(bRet.rows) >= 2
    /\ Len(AppendedRows) >= 2
    /\ nDisplay = 0

\* C15: a read/write connection is open only in a call with extended=True,
\* alone, while set_vertipaq_annotations runs, before the scan connection is
\* opened; from then on the annotations have been written exactly when
\* extended=True; while the rules are fetched and the scan runs the connection
\* of run_model_bpa is read-only, and so is every other open connection; with
\* extended=False the model is never annotated.
C15_ExtendedConnection ==
    /\ \A i \in 1..Len(conns) :
          conns[i].readonly = FALSE =>
              /\ bArgs.extended
              /\ bpc = "b_annot"
              /\ conns = <<Connection(FALSE, "run_model_bpa")>>
    /\ annotated => bArgs.extended
    /\ bpc \in {"b_open", "b_rules", "r_open", "r_build", "b_loop", "b_export", "b_append", "b_return",
                 "done"} => (annotated <=> bArgs.extended)
    /\ bpc \in {"idle", "b_ext", "b_annot"} => (annotated = FALSE /\ violations = <<>>)
    /\ bpc \in {"b_rules", "r_open", "r_build", "b_loop"} =>
          /\ Len(conns) >= 1
          /\ conns[1].by = "run_model_bpa"
          /\ \A i \in 1..Len(conns) : conns[i].readonly
    /\ violations # <<>> => bpc \in {"b_loop", "b_export", "b_append", "b_return", "done"}

C15_Witness ==
    /\ bpc = "b_loop"
    /\ bArgs.extended
    /\ annotated
    /\ conns = <<Connection(TRUE, "run_model_bpa")>>
    /\ Len(violations) >= 1

----------------------------------------------------------------------------
(* Properties of the HTML report *)

\* the Category of the rule of a violation
CategoryOf(ruleName) ==
    (CHOOSE r \in {rules[i] : i \in 1..Len(rules)} : r.RuleName = ruleName).Category

\* the table rows of the report that show a violation: (tab, row) pairs
ReportRows(h, v) ==
    {<<i, k>> \in (1..Len(h.contents)) \X (1..Len(violations)) :
        /\ k <= Len(h.contents[i].rows)
        /\ h.contents[i].rows[k].RuleName = v.RuleName
        /\ h.contents[i].rows[k].ObjectType = v.Scope
        /\ h.contents[i].rows[k].ObjectName = v.ObjectName}

\* the count a tab button shows for a severity
ShownCount(summary, sev) ==
    IF \E p \in summary : p[1] = sev THEN (CHOOSE p \in summary : p[1] = sev)[2] ELSE 0

\* C16: the report run_model_bpa displays has one button and one content
\* block, with the same id, for each Category of the result frame and no
\* other tab; every violation is shown by as many table rows as the
\* violations frame has such entries (one each), all in the tab of the
\* Category of its rule, and no table row shows anything else; the counts on
\* a tab button are one per severity and sum to the number of rows of the tab.
C16_HtmlTabs ==
    nDisplay = 1 =>
        LET h == displayed
            cats == {finalDF[i].Category : i \in 1..Len(finalDF)}
            icons == {"warning sign", "cross mark", "information"}
        IN  /\ Len(h.buttons) = Cardinality(cats)
            /\ Len(h.contents) = Len(h.buttons)
            /\ {h.buttons[i].title : i \in 1..Len(h.buttons)} = cats
            /\ \A i, j \in 1..Len(h.buttons) :
                  /\ h.contents[i].tab_id = h.buttons[i].tab_id
                  /\ h.buttons[i].tab_id = h.buttons[j].tab_id => i = j
            /\ \A v \in ViolationSet :
                  /\ Cardinality(ReportRows(h, v)) =
                         Cardinality({k \in 1..Len(violations) : violations[k] = v})
                  /\ \A p \in ReportRows(h, v) : h.buttons[p[1]].title = CategoryOf(v.RuleName)
            /\ \A i \in 1..Len(h.contents) :
                  /\ Len(h.contents[i].rows) >= 1
                  /\ Len(h.contents[i].rows) <= Len(violations)
                  /\ \A k \in 1..Len(h.contents[i].rows) :
                        \E v \in ViolationSet : <<i, k>> \in ReportRows(h, v)
                  /\ \A p \in h.buttons[i].summary : p[1] \in icons /\ p[2] >= 1
                  /\ \A p, q \in h.buttons[i].summary : p[1] = q[1] => p = q
                  /\ ShownCount(h.buttons[i].summary, "warning sign")
                         + ShownCount(h.buttons[i].summary, "cross mark")
                         + ShownCount(h.buttons[i].summary, "information")
                     = Len(h.contents[i].rows)

C16_Witness ==
    /\ nDisplay = 1
    /\ Len(violations) = 3
    /\ Len(displayed.buttons) = 2
    /\ \E i \in 1..2 : Len(displayed.contents[i].rows) = 2
    /\ \E i \in 1..2 : displayed.buttons[i].summary = {<<"information", 2>>}
    /\ \E i \in 1..2 : displayed.buttons[i].summary = {<<"cross mark", 1>>}

----------------------------------------------------------------------------
(* Properties of the default rules *)

\* the run uses the table model_bpa_rules built
DefaultRulesInUse == bArgs.rulesGiven = FALSE /\ rules # <<>>

\* the reference links of the default rules
ReferenceLinks ==
    { "https://www.sqlbi.com/articles/bidirectional-relationships-and-ambiguity-in-dax",
      "https://blog.crossjoin.co.uk/2018/07/02/isavailableinmdx-ssas-tabular",
      "https://learn.microsoft.com/power-bi/transform-model/desktop-storage-mode#propagation-of-the-dual-setting" }

DefaultPredicates == {"d_float", "d_bidi_valid", "d_m2m_single", "d_mdx", "d_dual", "d_excessive",
                      "d_mdx_true", "d_month"}

\* C17: in every row of the table model_bpa_rules returns the Expression
\* column holds the predicate, the URL column holds a reference link or is
\* empty, and the Description column does not hold a reference link.
C17_RuleTableShape ==
    DefaultRulesInUse =>
        \A i \in 1..Len(rules) :
            /\ rules[i].Expression \in DefaultPredicates
            /\ rules[i].URL \in ReferenceLinks \cup {None}
            /\ rules[i].Description \notin ReferenceLinks

\* C18: no predicate is evaluated through a connection that has been closed.
C18_PredicatesReadOpenConnection == closedReads = 0

BiDiRule == "Check if bi-directional and many-to-many relationships are valid"

\* C19: after a scan with the default rules the rule 'Check if
\* bi-directional and many-to-many relationships are valid' has one
\* violation for every relationship that is many-to-many or filters in both
\* directions, and none for any other relationship.
C19_BiDiRelationshipsFlagged ==
    (ScanDone /\ DefaultRulesInUse) =>
        Cardinality({k \in 1..Len(violations) : violations[k].RuleName = BiDiRule})
          = Cardinality({i \in 1..Len(tom.Relationships) :
                LET r == tom.Relationships[i]
                IN  \/ (r.FromCardinality = "Many" /\ r.ToCardinality = "Many")
                    \/ r.CrossFilteringBehavior = "BothDirections"})

ExcessiveRule == "Avoid excessive bi-directional or many-to-many relationships"

\* C20: after a scan with the default rules the rule 'Avoid excessive
\* bi-directional or many-to-many relationships' has flagged the model
\* exactly when more than 30% of the relationships are bi-directional or
\* many-to-many, a relationship that is both counting once; a model without
\* relationships is not flagged.
C20_ExcessiveRelationships ==
    (ScanDone /\ DefaultRulesInUse) =>
        LET R == tom.Relationships
            hit == {i \in 1..Len(R) :
                       \/ (R[i].FromCardinality = "Many" /\ R[i].ToCardinality = "Many")
                       \/ R[i].CrossFilteringBehavior = "BothDirections"}
        IN  (\E k \in 1..Len(violations) : violations[k].RuleName = ExcessiveRule)
               <=> (Len(R) > 0 /\ 10 * Cardinality(hit) > 3 * Len(R))

----------------------------------------------------------------------------
(* Properties of a missing source model *)

\* the dataset argument names no semantic model of the resolved workspace
SourceMissing == args.dataset # None /\ items0[SrcWs][args.dataset] = NoItem

\* C25: get_semantic_model_bim for a dataset that is not a semantic model of
\* the resolved workspace ends in IndexError, having sent no getDefinition
\* request, asked for no lakehouse, written no file and returned no BIM;
\* deploy_semantic_model with such a source sends no getDefinition request and
\* no item-creation POST, changes no workspace, and ends in that IndexError
\* (or, when the target is the source itself, returns after its message).
C25_MissingDatasetRaises ==
    /\ (fn = "get_semantic_model_bim" /\ SourceMissing) =>
          /\ nGetDef = 0
          /\ nLakeCheck = 0
          /\ files = NoFiles
          /\ bimRet = NoItem
          /\ Done => outcome = "IndexError"
    /\ (fn = "deploy_semantic_model" /\ SourceMissing) =>
          /\ nGetDef = 0
          /\ nPosts = 0
          /\ postStatus = 0
          /\ lro = "None"
          /\ items = items0
          /\ files = NoFiles
          /\ Done => outcome = (IF TgtWs = SrcWs /\ TgtName = args.dataset
                                THEN "returned" ELSE "IndexError")

C25_Witness ==
    /\ fn = "deploy_semantic_model"
    /\ Done
    /\ SourceMissing
    /\ args.dataset = "A"
    /\ args.new_dataset = "B"
    /\ args.workspace = "W2"
    /\ items0["W1"]["A"] # NoItem
    /\ outcome = "IndexError"

----------------------------------------------------------------------------
(* Properties of two default column rules *)

MdxTrueRule == "Set IsAvailableInMdx to true on necessary columns"

\* the columns a rule has flagged, by name
FlaggedBy(ruleName) ==
    {violations[k].ObjectName : k \in {j \in 1..Len(violations) :
                                          violations[j].RuleName = ruleName}}

\* C21: after a scan with the default rules, every column the rule 'Set
\* IsAvailableInMdx to true on necessary columns' has flagged belongs to a
\* model that is not Direct Lake, has IsAvailableInMDX false, and sorts
\* another column, is in a hierarchy or has a SortByColumn; a column with
\* IsAvailableInMDX false and none of these uses is not flagged.
C21_MdxNecessaryColumns ==
    (ScanDone /\ DefaultRulesInUse) =>
        \A i \in 1..Len(tom.Columns) :
            LET c == tom.Columns[i]
            IN  nm("Column", c) \in FlaggedBy(MdxTrueRule) =>
                    /\ is_direct_lake(tom) = FALSE
                    /\ c.IsAvailableInMDX = FALSE
                    /\ \/ Len(used_in_sort_by(tom, c)) > 0
                       \/ Len(used_in_hierarchies(tom, c)) > 0
                       \/ c.SortByColumn # None

MonthRule == "Month (as a string) must be sorted"

\* C22: after a scan with the default rules, the rule 'Month (as a string)
\* must be sorted' has flagged every String column whose name contains
\* 'month' and not 'months', whatever the case, and that has no SortByColumn.
C22_UnsortedMonthFlagged ==
    (ScanDone /\ DefaultRulesInUse) =>
        \A i \in 1..Len(tom.Columns) :
            LET c == tom.Columns[i]
            IN  (/\ re_search_ignorecase(<<"m", "o", "n", "t", "h">>, NameChars(c.Name))
                 /\ ~re_search_ignorecase(<<"m", "o", "n", "t", "h", "s">>, NameChars(c.Name))
                 /\ c.DataType = "String"
                 /\ c.SortByColumn = None)
                  => nm("Column", c) \in FlaggedBy(MonthRule)

----------------------------------------------------------------------------
(* Properties of the RunId of the export runs *)

\* the appends of the runs, in the order they happened
Appends == SelectSeq(exportLog, LAMBDA e : e.ev = "append")

\* no run overlaps another: every read of MAX(RunId) is followed at once by
\* the append of the same run
NonOverlapping ==
    \A i \in 1..Len(exportLog) :
        /\ exportLog[i].ev = "append" =>
              (i > 1 /\ exportLog[i - 1].ev = "read"
                     /\ exportLog[i - 1].run = exportLog[i].run)
        /\ (exportLog[i].ev = "read" /\ i < Len(exportLog)) =>
              (exportLog[i + 1].ev = "append" /\ exportLog[i + 1].run = exportLog[i].run)

EveryRunAppendsRows == \A k \in 1..Len(Appends) : Appends[k].n >= 1

\* the number of rows of the table before the k+1-th append
RECURSIVE RowsBefore(_)
RowsBefore(k) == IF k = 0 THEN Len(deltaTable0.rows) ELSE RowsBefore(k - 1) + Appends[k].n

\* C23: when the export runs do not overlap and each appends at least one
\* row, the rows of the table are the rows it started with followed by the
\* rows of the runs in order; all rows of one run carry the RunId of that run;
\* a first run into a lakehouse without the table writes RunId 1; every other
\* run writes the largest RunId in the table at that moment plus one; the
\* RunIds of successive runs are strictly increasing.
C23_SuccessiveRunIds ==
    (NonOverlapping /\ EveryRunAppendsRows) =>
        /\ Len(deltaTable.rows) = RowsBefore(Len(Appends))
        /\ \A k \in 1..Len(Appends) :
              /\ \A j \in (RowsBefore(k - 1) + 1)..RowsBefore(k) :
                    deltaTable.rows[j].RunId = Appends[k].RunId
              /\ Appends[k].RunId =
                    IF k = 1 /\ deltaTable0.exists = FALSE THEN 1
                    ELSE MaxRunId(SubSeq(deltaTable.rows, 1, RowsBefore(k - 1))) + 1
        /\ \A k, l \in 1..Len(Appends) : k < l => Appends[k].RunId < Appends[l].RunId

C23_Witness ==
    /\ NonOverlapping
    /\ EveryRunAppendsRows
    /\ deltaTable0.exists = FALSE
    /\ Len(Appends) = 3
    /\ Appends[2].run = 0
    /\ Appends[2].n = 2
    /\ Appends[1].RunId = 1
    /\ Appends[3].RunId = 3
    /\ Len(deltaTable.rows) = 4

\* C24: two export runs against the same lakehouse, overlapping or not, that
\* each append at least one row never append rows with the same RunId.
C24_OverlappingRunsDistinct ==
    \A k, l \in 1..Len(Appends) :
        (k # l /\ Appends[k].n >= 1 /\ Appends[l].n >= 1) =>
            Appends[k].RunId # Appends[l].RunId

====
